---- MODULE Spec2Model ----
(***************************************************************************)
(* Alert lifecycle of AMLSentinel: AlertRepository.update_status and       *)
(* bulk_update_status (backend/api/repositories/alert.py), the two routes   *)
(* that call them and write the audit trail (backend/api/routes/alerts.py)  *)
(* and AuditTrailRepository.create (backend/api/repositories/               *)
(* investigation.py).                                                       *)
(***************************************************************************)
EXTENDS Integers, Sequences, FiniteSets, TLC

\* ---------------------------------------------------------------- bounds
\* Number of route invocations explored from the seeded store.
MaxCalls == 1
\* Longest alert_ids list of a bulk-close request.
MaxIds == 2
\* Longest alert_ids list of a direct bulk_update_status call.
MaxBulkIds == 3

\* ---------------------------------------------------------------- values
\* Python None of a nullable string column.
Null == "<None>"
\* Python None of the nullable closed_at column.
NoTime == <<>>
\* datetime.now(timezone.utc).isoformat() of clock reading t.
IsoFormat(t) == <<t>>
\* Truthiness of an optional string: None and "" are both falsy.
Truthy(s) == s # Null /\ s # ""

Statuses == {"New", "In Progress", "Review", "Escalated", "Closed"}
OpenStatuses == {"New", "In Progress", "Review", "Escalated"}
Analysts == {"sarah.chen", "priya.nair"}
Rationales == {"reviewed"}
\* resolution of AlertStatusUpdate: str | None
Resolutions == {Null, "", "No Suspicion"}
\* resolution of BulkCloseRequest: str
BulkResolutions == {"", "No Suspicion"}

\* Primary keys of the stored alerts, and one id that is not stored.
AlertIds == {"uuid-1", "uuid-2"}
RequestIds == AlertIds \cup {"bogus"}

\* A seeded store: one open alert (new and unassigned, or in progress and
\* assigned) and one alert closed earlier.
SeedAlerts(status, analyst) ==
  [id \in AlertIds |->
     IF id = "uuid-1"
     THEN [alert_id |-> "S1", customer_id |-> "c1", typology |-> "Structuring",
           risk_score |-> 85, status |-> status, assigned_analyst |-> analyst,
           resolution |-> Null, closed_at |-> NoTime,
           total_flagged_amount |-> 100, flagged_transaction_count |-> 3]
     ELSE [alert_id |-> "L1", customer_id |-> "c2", typology |-> "Large Cash",
           risk_score |-> 60, status |-> "Closed", assigned_analyst |-> "priya.nair",
           resolution |-> "SAR Filed", closed_at |-> IsoFormat(0),
           total_flagged_amount |-> 50, flagged_transaction_count |-> 1]]

SeedStores == {SeedAlerts("New", Null), SeedAlerts("In Progress", "priya.nair")}

\* All id lists of length 0..n.
RECURSIVE IdLists(_)
IdLists(n) ==
  IF n = 0 THEN {<<>>}
  ELSE LET shorter == IdLists(n - 1)
       IN shorter \cup {Append(l, id) : l \in {s \in shorter : Len(s) = n - 1}, id \in RequestIds}

VARIABLES
  alerts,         \* the alerts table: id -> row
  audit_trail,    \* the audit_trail_entries table, in insertion order
  now,            \* the clock read by datetime.now
  pc,             \* position of the handler in flight, or "idle"
  req,            \* the request of the handler in flight
  idx,            \* loop index of the handler in flight
  success_count,  \* local of bulk_update_status
  failed_ids,     \* local of bulk_update_status
  response,       \* what the last finished handler returned or raised
  calls,          \* number of route invocations so far
  start,          \* alerts, audit_trail and now as they were when the handler started
  updated,        \* per alert: update_status calls of update_alert_status that returned the alert
  bulk_updated,   \* per alert: update_status calls of bulk_update_status that returned the alert
  lost,           \* per alert: audit entries not written because a write raised
  sar_drafts,     \* the sar_drafts table, in insertion order
  callers         \* concurrent requests: per caller its position, request, session and locals

vars == <<alerts, audit_trail, now, pc, req, idx, success_count, failed_ids,
          response, calls, start, updated, bulk_updated, lost, sar_drafts, callers>>

NoReq == [op |-> "none"]
NoResponse == [kind |-> "none"]
NoStart == [alerts |-> <<>>, audit_trail |-> <<>>, now |-> 0]
Snapshot == [alerts |-> alerts, audit_trail |-> audit_trail, now |-> now]
Zeros == [id \in AlertIds |-> 0]

\* ------------------------------------------------- repository operations
\* update_status that sets the resolution when closing and forgets closed_at.
UpdatedRow_NoClosedAt(row, status, analyst, resolution, t) ==
  LET r1 == [row EXCEPT !.status = status, !.assigned_analyst = analyst]
  IN IF status = "Closed" /\ Truthy(resolution)
     THEN [r1 EXCEPT !.resolution = resolution]
     ELSE r1

\* update_status that clears resolution and closed_at when it does not set them.
UpdatedRow_ClearsOnReopen(row, status, analyst, resolution, t) ==
  LET r1 == [row EXCEPT !.status = status, !.assigned_analyst = analyst]
  IN IF status = "Closed" /\ Truthy(resolution)
     THEN [r1 EXCEPT !.resolution = resolution, !.closed_at = IsoFormat(t)]
     ELSE [r1 EXCEPT !.resolution = Null, !.closed_at = NoTime]

\* update_status that assigns the analyst only to an unassigned alert.
UpdatedRow_KeepsAnalyst(row, status, analyst, resolution, t) ==
  LET r1 == [row EXCEPT !.status = status,
                        !.assigned_analyst = IF @ = Null THEN analyst ELSE @]
  IN IF status = "Closed" /\ Truthy(resolution)
     THEN [r1 EXCEPT !.resolution = resolution, !.closed_at = IsoFormat(t)]
     ELSE r1

\* update_status that sets closed_at on every close, with or without a resolution.
UpdatedRow_ClosedAtOnEveryClose(row, status, analyst, resolution, t) ==
  LET r1 == [row EXCEPT !.status = status, !.assigned_analyst = analyst]
      r2 == IF status = "Closed" THEN [r1 EXCEPT !.closed_at = IsoFormat(t)] ELSE r1
  IN IF status = "Closed" /\ Truthy(resolution)
     THEN [r2 EXCEPT !.resolution = resolution]
     ELSE r2

\* update_status that refuses to move a closed alert to another status.
UpdatedRow_ClosedIsTerminal(row, status, analyst, resolution, t) ==
  LET r1 == [row EXCEPT !.status = IF @ = "Closed" THEN @ ELSE status,
                        !.assigned_analyst = analyst]
  IN IF status = "Closed" /\ Truthy(resolution)
     THEN [r1 EXCEPT !.resolution = resolution, !.closed_at = IsoFormat(t)]
     ELSE r1

\* The row AlertRepository.update_status commits for an existing alert.
UpdatedRow(row, status, analyst, resolution, t) ==
  LET r1 == [row EXCEPT !.status = status, !.assigned_analyst = analyst]
  IN IF status = "Closed" /\ Truthy(resolution)
     THEN [r1 EXCEPT !.resolution = resolution, !.closed_at = IsoFormat(t)]
     ELSE r1

\* AlertRepository.get_by_id: is there a row with this primary key?
Exists(store, id) == id \in DOMAIN store

\* The table after AlertRepository.update_status (unchanged when the id is absent).
UpdateStatusStore(store, id, status, analyst, resolution, t) ==
  IF Exists(store, id)
  THEN [store EXCEPT ![id] = UpdatedRow(store[id], status, analyst, resolution, t)]
  ELSE store

\* The clock after AlertRepository.update_status: it is read when closed_at is set.
ClockAfter(store, id, status, resolution, t) ==
  IF Exists(store, id) /\ status = "Closed" /\ Truthy(resolution) THEN t + 1 ELSE t

AuditCreate_ReplacesLast(table, alert_id, action, performed_by, details) ==
  LET entry == [alert_id |-> alert_id, action |-> action,
                performed_by |-> performed_by, details |-> details]
  IN IF table = <<>> THEN <<entry>>
     ELSE Append(SubSeq(table, 1, Len(table) - 1), entry)

\* AuditTrailRepository.create: the table with the new entry added.
AuditCreate(table, alert_id, action, performed_by, details) ==
  Append(table, [alert_id |-> alert_id, action |-> action,
                 performed_by |-> performed_by, details |-> details])

\* audit_details that leave the rationale out.
StatusUpdateDetails_NoRationale(status, rationale, resolution) ==
  <<"Status changed to", status>>
    \o (IF Truthy(resolution) THEN <<"Resolution", resolution>> ELSE <<>>)

\* audit_details of update_alert_status.
StatusUpdateDetails(status, rationale, resolution) ==
  <<"Status changed to", status, "Rationale", rationale>>
    \o (IF Truthy(resolution) THEN <<"Resolution", resolution>> ELSE <<>>)

\* audit_details of bulk_close_alerts.
BulkCloseDetails(rationale, resolution) ==
  <<"Status changed to", "Closed", "via bulk close", "Rationale", rationale,
    "Resolution", resolution>>

\* successfully_closed_ids that keeps every requested id.
SuccessfullyClosedIds_All(ids, failed) == ids

\* successfully_closed_ids of bulk_close_alerts.
SuccessfullyClosedIds(ids, failed) ==
  SelectSeq(ids, LAMBDA aid : \A k \in 1..Len(failed) : failed[k] # aid)

Init ==
  /\ alerts \in SeedStores
  /\ audit_trail = <<>>
  /\ now = 1
  /\ pc = "idle"
  /\ req = NoReq
  /\ idx = 0
  /\ success_count = 0
  /\ failed_ids = <<>>
  /\ response = NoResponse
  /\ calls = 0
  /\ start = NoStart
  /\ updated = Zeros
  /\ bulk_updated = Zeros
  /\ lost = Zeros
  /\ sar_drafts = <<>>
  /\ callers = <<>>

\* ------------------------------------------- PATCH /api/alerts/{id}/status
\* update_alert_status without the 404 check: the audit entry is written even
\* when update_status returned None.
UpdateAlertStatus_NoNotFoundCheck(id, status, analyst, rationale, resolution) ==
  /\ pc = "idle"
  /\ calls < MaxCalls
  /\ calls' = calls + 1
  /\ alerts' = UpdateStatusStore(alerts, id, status, analyst, resolution, now)
  /\ now' = ClockAfter(alerts, id, status, resolution, now)
  /\ IF Exists(alerts, id)
     THEN /\ pc' = "update_audit"
          /\ updated' = [updated EXCEPT ![id] = @ + 1]
          /\ response' = NoResponse
          /\ req' = [op |-> "update", id |-> id, status |-> status, analyst |-> analyst,
                     rationale |-> rationale, resolution |-> resolution]
          /\ start' = Snapshot
          /\ audit_trail' = audit_trail
     ELSE /\ pc' = "idle"
          /\ updated' = updated
          /\ response' = [kind |-> "NotFound", detail |-> id]
          /\ req' = NoReq
          /\ start' = NoStart
          /\ audit_trail' = AuditCreate(audit_trail, id, "status_update", analyst,
                                StatusUpdateDetails(status, rationale, resolution))
  /\ UNCHANGED <<idx, success_count, failed_ids, bulk_updated, lost,
                 sar_drafts, callers>>

\* update_alert_status up to the audit write: the repository call, and the
\* 404 when it returns None.
UpdateAlertStatus(id, status, analyst, rationale, resolution) ==
  /\ pc = "idle"
  /\ calls < MaxCalls
  /\ calls' = calls + 1
  /\ alerts' = UpdateStatusStore(alerts, id, status, analyst, resolution, now)
  /\ now' = ClockAfter(alerts, id, status, resolution, now)
  /\ IF Exists(alerts, id)
     THEN /\ pc' = "update_audit"
          /\ updated' = [updated EXCEPT ![id] = @ + 1]
          /\ response' = NoResponse
          /\ req' = [op |-> "update", id |-> id, status |-> status, analyst |-> analyst,
                     rationale |-> rationale, resolution |-> resolution]
          /\ start' = Snapshot
     ELSE /\ pc' = "idle"
          /\ updated' = updated
          /\ response' = [kind |-> "NotFound", detail |-> id]
          /\ req' = NoReq
          /\ start' = NoStart
  /\ UNCHANGED <<audit_trail, idx, success_count, failed_ids, bulk_updated, lost,
                 sar_drafts, callers>>

\* update_alert_status: audit_repo.create commits the entry, the alert is returned.
UpdateAudit ==
  /\ pc = "update_audit"
  /\ audit_trail' = AuditCreate(audit_trail, req.id, "status_update", req.analyst,
                        StatusUpdateDetails(req.status, req.rationale, req.resolution))
  /\ pc' = "idle"
  /\ response' = [kind |-> "alert", alert |-> alerts[req.id]]
  /\ req' = NoReq
  /\ start' = NoStart
  /\ UNCHANGED <<alerts, now, idx, success_count, failed_ids, calls, updated,
                 bulk_updated, lost,
                 sar_drafts, callers>>

\* A failed audit write that rolls the alert write back.
UpdateAuditFails_RollsBack ==
  /\ pc = "update_audit"
  /\ pc' = "idle"
  /\ response' = [kind |-> "error"]
  /\ alerts' = start.alerts
  /\ lost' = [lost EXCEPT ![req.id] = @ + 1]
  /\ req' = NoReq
  /\ start' = NoStart
  /\ UNCHANGED <<audit_trail, now, idx, success_count, failed_ids, calls,
                 updated, bulk_updated,
                 sar_drafts, callers>>

\* update_alert_status: audit_repo.create raises; nothing catches it.
UpdateAuditFails ==
  /\ pc = "update_audit"
  /\ pc' = "idle"
  /\ response' = [kind |-> "error"]
  /\ lost' = [lost EXCEPT ![req.id] = @ + 1]
  /\ req' = NoReq
  /\ start' = NoStart
  /\ UNCHANGED <<alerts, audit_trail, now, idx, success_count, failed_ids, calls,
                 updated, bulk_updated,
                 sar_drafts, callers>>

\* ------------------------------------------- POST /api/alerts/bulk-close
\* bulk_close_alerts is called; bulk_update_status initialises its locals.
BulkCloseAlerts(ids, analyst, rationale, resolution) ==
  /\ pc = "idle"
  /\ calls < MaxCalls
  /\ calls' = calls + 1
  /\ start' = Snapshot
  /\ req' = [op |-> "bulk_close", ids |-> ids, status |-> "Closed",
             analyst |-> analyst, rationale |-> rationale, resolution |-> resolution]
  /\ success_count' = 0
  /\ failed_ids' = <<>>
  /\ idx' = 1
  /\ pc' = "bulk_loop"
  /\ response' = NoResponse
  /\ UNCHANGED <<alerts, audit_trail, now, updated, bulk_updated, lost,
                 sar_drafts, callers>>

\* The loop of bulk_update_status stopping at the first missing id.
BulkLoopStep_StopsAtMissing ==
  /\ pc = "bulk_loop"
  /\ idx <= Len(req.ids)
  /\ LET id == req.ids[idx]
     IN /\ alerts' = UpdateStatusStore(alerts, id, req.status, req.analyst,
                                       req.resolution, now)
        /\ now' = ClockAfter(alerts, id, req.status, req.resolution, now)
        /\ IF Exists(alerts, id)
           THEN /\ success_count' = success_count + 1
                /\ failed_ids' = failed_ids
                /\ bulk_updated' = [bulk_updated EXCEPT ![id] = @ + 1]
                /\ idx' = idx + 1
           ELSE /\ success_count' = success_count
                /\ failed_ids' = Append(failed_ids, id)
                /\ bulk_updated' = bulk_updated
                /\ idx' = Len(req.ids) + 1
  /\ UNCHANGED <<audit_trail, pc, req, response, calls, start, updated, lost,
                 sar_drafts, callers>>

\* The loop of bulk_update_status undoing the earlier updates at a missing id.
BulkLoopStep_RollsBack ==
  /\ pc = "bulk_loop"
  /\ idx <= Len(req.ids)
  /\ LET id == req.ids[idx]
     IN /\ now' = ClockAfter(alerts, id, req.status, req.resolution, now)
        /\ IF Exists(alerts, id)
           THEN /\ alerts' = UpdateStatusStore(alerts, id, req.status, req.analyst,
                                               req.resolution, now)
                /\ success_count' = success_count + 1
                /\ failed_ids' = failed_ids
                /\ bulk_updated' = [bulk_updated EXCEPT ![id] = @ + 1]
           ELSE /\ alerts' = start.alerts
                /\ success_count' = success_count
                /\ failed_ids' = Append(failed_ids, id)
                /\ bulk_updated' = bulk_updated
  /\ idx' = idx + 1
  /\ UNCHANGED <<audit_trail, pc, req, response, calls, start, updated, lost,
                 sar_drafts, callers>>

\* One iteration of the for loop of bulk_update_status.
BulkLoopStep ==
  /\ pc = "bulk_loop"
  /\ idx <= Len(req.ids)
  /\ LET id == req.ids[idx]
     IN /\ alerts' = UpdateStatusStore(alerts, id, req.status, req.analyst,
                                       req.resolution, now)
        /\ now' = ClockAfter(alerts, id, req.status, req.resolution, now)
        /\ IF Exists(alerts, id)
           THEN /\ success_count' = success_count + 1
                /\ failed_ids' = failed_ids
                /\ bulk_updated' = [bulk_updated EXCEPT ![id] = @ + 1]
           ELSE /\ success_count' = success_count
                /\ failed_ids' = Append(failed_ids, id)
                /\ bulk_updated' = bulk_updated
  /\ idx' = idx + 1
  /\ UNCHANGED <<audit_trail, pc, req, response, calls, start, updated, lost,
                 sar_drafts, callers>>

\* bulk_update_status returns to bulk_close_alerts, which starts its audit loop.
BulkLoopDone ==
  /\ pc = "bulk_loop"
  /\ req.op = "bulk_close"
  /\ idx > Len(req.ids)
  /\ pc' = "bulk_audit"
  /\ idx' = 1
  /\ UNCHANGED <<alerts, audit_trail, now, req, success_count, failed_ids,
                 response, calls, start, updated, bulk_updated, lost,
                 sar_drafts, callers>>

\* One iteration of the audit loop of bulk_close_alerts.
BulkAuditStep ==
  /\ pc = "bulk_audit"
  /\ LET closed == SuccessfullyClosedIds(req.ids, failed_ids)
     IN /\ idx <= Len(closed)
        /\ audit_trail' = AuditCreate(audit_trail, closed[idx], "bulk_close",
                              req.analyst,
                              BulkCloseDetails(req.rationale, req.resolution))
  /\ idx' = idx + 1
  /\ UNCHANGED <<alerts, now, pc, req, success_count, failed_ids, response,
                 calls, start, updated, bulk_updated, lost,
                 sar_drafts, callers>>

\* One audit_repo.create of the audit loop raises; the route ends with the error.
BulkAuditFails ==
  /\ pc = "bulk_audit"
  /\ LET closed == SuccessfullyClosedIds(req.ids, failed_ids)
     IN /\ idx <= Len(closed)
        /\ lost' = [id \in AlertIds |->
                      lost[id] + Cardinality({k \in idx..Len(closed) : closed[k] = id})]
  /\ pc' = "idle"
  /\ response' = [kind |-> "error"]
  /\ req' = NoReq
  /\ start' = NoStart
  /\ idx' = 0
  /\ success_count' = 0
  /\ failed_ids' = <<>>
  /\ UNCHANGED <<alerts, audit_trail, now, calls, updated, bulk_updated,
                 sar_drafts, callers>>

\* bulk_close_alerts returns BulkCloseResponse.
BulkReturn ==
  /\ pc = "bulk_audit"
  /\ idx > Len(SuccessfullyClosedIds(req.ids, failed_ids))
  /\ pc' = "idle"
  /\ response' = [kind |-> "bulk", closed_count |-> success_count,
                  failed_ids |-> failed_ids]
  /\ req' = NoReq
  /\ start' = NoStart
  /\ idx' = 0
  /\ success_count' = 0
  /\ failed_ids' = <<>>
  /\ UNCHANGED <<alerts, audit_trail, now, calls, updated, bulk_updated, lost,
                 sar_drafts, callers>>

Next ==
  \/ \E id \in RequestIds, status \in Statuses, analyst \in Analysts,
        rationale \in Rationales, resolution \in Resolutions :
       UpdateAlertStatus(id, status, analyst, rationale, resolution)
  \/ UpdateAudit
  \/ UpdateAuditFails
  \/ \E ids \in IdLists(MaxIds), analyst \in Analysts, rationale \in Rationales,
        resolution \in BulkResolutions :
       BulkCloseAlerts(ids, analyst, rationale, resolution)
  \/ BulkLoopStep
  \/ BulkLoopDone
  \/ BulkAuditStep
  \/ BulkAuditFails
  \/ BulkReturn

Spec == Init /\ [][Next]_vars

\* ------------------------------------- single transitions from any status
\* Seeded stores whose open alert has each of the open statuses.
AnyStatusStores ==
  {SeedAlerts(s, Null) : s \in OpenStatuses} \cup SeedStores

InitTransitions ==
  /\ alerts \in AnyStatusStores
  /\ audit_trail = <<>>
  /\ now = 1
  /\ pc = "idle"
  /\ req = NoReq
  /\ idx = 0
  /\ success_count = 0
  /\ failed_ids = <<>>
  /\ response = NoResponse
  /\ calls = 0
  /\ start = NoStart
  /\ updated = Zeros
  /\ bulk_updated = Zeros
  /\ lost = Zeros
  /\ sar_drafts = <<>>
  /\ callers = <<>>

NextTransitions ==
  \/ \E id \in RequestIds, status \in Statuses, analyst \in Analysts,
        rationale \in Rationales, resolution \in Resolutions :
       UpdateAlertStatus(id, status, analyst, rationale, resolution)
  \/ UpdateAudit
  \/ UpdateAuditFails

SpecTransitions == InitTransitions /\ [][NextTransitions]_vars

\* ------------------------------- AlertRepository.bulk_update_status alone
\* A direct call of bulk_update_status with any status, as the repository
\* tests make it: the store and the arguments are drawn at the start.
InitBulk ==
  /\ alerts \in SeedStores
  /\ audit_trail = <<>>
  /\ now = 1
  /\ pc = "bulk_loop"
  /\ req \in {[op |-> "bulk_update_status", ids |-> ids, status |-> status,
               analyst |-> analyst, rationale |-> Null, resolution |-> resolution] :
                ids \in IdLists(MaxBulkIds), status \in Statuses,
                analyst \in Analysts, resolution \in Resolutions}
  /\ idx = 1
  /\ success_count = 0
  /\ failed_ids = <<>>
  /\ response = NoResponse
  /\ calls = 1
  /\ start = Snapshot
  /\ updated = Zeros
  /\ bulk_updated = Zeros
  /\ lost = Zeros
  /\ sar_drafts = <<>>
  /\ callers = <<>>

\* bulk_update_status returns (success_count, failed_ids) to its caller.
BulkUpdateStatusReturn ==
  /\ pc = "bulk_loop"
  /\ req.op = "bulk_update_status"
  /\ idx > Len(req.ids)
  /\ pc' = "returned"
  /\ response' = [kind |-> "bulk", closed_count |-> success_count,
                  failed_ids |-> failed_ids]
  /\ UNCHANGED <<alerts, audit_trail, now, req, idx, success_count, failed_ids,
                 calls, start, updated, bulk_updated, lost,
                 sar_drafts, callers>>

NextBulk ==
  \/ BulkLoopStep
  \/ BulkUpdateStatusReturn

SpecBulk == InitBulk /\ [][NextBulk]_vars

\* ------------------------------------------------ AlertRepository.get_all
\* Largest offset and limit of a queue request, longest status filter (in
\* tokens) and longest search text (in characters).
MaxOffset == 4
MaxLimit == 2
MaxStatusLen == 4
MaxSearchLen == 2

\* Python None of an optional int parameter (the route accepts 0..100).
NoInt == -1
\* Python None, or SQL NULL, of a text modelled as a sequence of characters.
NoText == <<Null>>

\* Lower case of a character, as ILIKE folds it.
Lower(c) ==
  CASE c = "A" -> "a" [] c = "S" -> "s" [] c = "G" -> "g" [] c = "L" -> "l"
    [] OTHER -> c

\* SQL LIKE on lower-cased operands: % is any run of characters, _ any one.
RECURSIVE Like(_, _)
Like(pattern, text) ==
  IF pattern = <<>> THEN text = <<>>
  ELSE IF Head(pattern) = "%"
       THEN Like(Tail(pattern), text) \/ (text # <<>> /\ Like(pattern, Tail(text)))
       ELSE /\ text # <<>>
            /\ (Head(pattern) = "_" \/ Lower(Head(pattern)) = Lower(Head(text)))
            /\ Like(Tail(pattern), Tail(text))

\* column.ilike(pattern); NULL matches nothing.
ILike(text, pattern) == text # NoText /\ Like(pattern, text)

\* The alerts table of the queue view: two alerts tie on triggered_date, two on
\* risk_score, two are unassigned, one has no description.
QueryIds == {"q1", "q2", "q3", "q4"}
QueryAlerts ==
  [id \in QueryIds |->
     CASE id = "q1" ->
            [alert_id |-> <<"S", "1">>, title |-> <<"a", "b">>, description |-> NoText,
             customer_id |-> "c1", typology |-> "Structuring", risk_score |-> 85,
             status |-> "New", triggered_date |-> 3, assigned_analyst |-> Null,
             resolution |-> Null, closed_at |-> NoTime]
       [] id = "q2" ->
            [alert_id |-> <<"G", "1">>, title |-> <<"A", "_">>, description |-> <<"b">>,
             customer_id |-> "c2", typology |-> "Geographic", risk_score |-> 70,
             status |-> "In Progress", triggered_date |-> 3,
             assigned_analyst |-> "sarah.chen", resolution |-> Null,
             closed_at |-> NoTime]
       [] id = "q3" ->
            [alert_id |-> <<"L", "1">>, title |-> <<"b", "a">>, description |-> <<"%">>,
             customer_id |-> "c1", typology |-> "Structuring", risk_score |-> 70,
             status |-> "Closed", triggered_date |-> 1,
             assigned_analyst |-> "priya.nair", resolution |-> "SAR Filed",
             closed_at |-> IsoFormat(0)]
       [] OTHER ->
            [alert_id |-> <<"L", "2">>, title |-> <<"s">>, description |-> <<"a", "a">>,
             customer_id |-> "c3", typology |-> "Large Cash", risk_score |-> 60,
             status |-> "Closed", triggered_date |-> 2, assigned_analyst |-> Null,
             resolution |-> "No Suspicion", closed_at |-> IsoFormat(0)]]

\* All sequences over a set of length 0..n.
RECURSIVE Strings(_, _)
Strings(alphabet, n) ==
  IF n = 0 THEN {<<>>}
  ELSE LET shorter == Strings(alphabet, n - 1)
       IN shorter \cup {Append(w, c) : w \in {x \in shorter : Len(x) = n - 1},
                                       c \in alphabet}

\* A status filter is a text of tokens: a comma, a blank or a status label.
StatusTokens == {",", " ", "New", "In Progress", "Closed"}
SearchChars == {"a", "A", "1", "_", "%"}

\* status.split(",")
RECURSIVE Split(_)
Split(text) ==
  IF \A k \in 1..Len(text) : text[k] # ","
  THEN <<text>>
  ELSE LET i == CHOOSE i \in 1..Len(text) :
                  text[i] = "," /\ \A j \in 1..(i - 1) : text[j] # ","
       IN <<SubSeq(text, 1, i - 1)>> \o Split(SubSeq(text, i + 1, Len(text)))

\* s.strip()
RECURSIVE Strip(_)
Strip(text) ==
  IF text = <<>> THEN text
  ELSE IF Head(text) = " " THEN Strip(Tail(text))
  ELSE IF text[Len(text)] = " " THEN Strip(SubSeq(text, 1, Len(text) - 1))
  ELSE text

StatusSelected_NoStrip(row, status) ==
  IF \E k \in 1..Len(status) : status[k] = ","
  THEN LET status_list == Split(status)
       IN \E k \in 1..Len(status_list) : status_list[k] = <<row.status>>
  ELSE status = <<row.status>>

\* The status condition of get_all on a row.
StatusSelected(row, status) ==
  IF \E k \in 1..Len(status) : status[k] = ","
  THEN LET status_list == Split(status)
       IN \E k \in 1..Len(status_list) : Strip(status_list[k]) = <<row.status>>
  ELSE status = <<row.status>>

\* The WHERE clause get_all builds from its filters, on one row.
Selected(row, q) ==
  /\ Truthy(q.typology) => row.typology = q.typology
  /\ (q.status # NoText /\ q.status # <<>>) => StatusSelected(row, q.status)
  /\ q.risk_min # NoInt => row.risk_score >= q.risk_min
  /\ q.risk_max # NoInt => row.risk_score <= q.risk_max
  /\ Truthy(q.resolution) => row.resolution = q.resolution
  /\ Truthy(q.assigned_analyst) =>
       IF q.assigned_analyst = "__unassigned__"
       THEN row.assigned_analyst = Null
       ELSE row.assigned_analyst = q.assigned_analyst
  /\ (q.search # NoText /\ q.search # <<>>) =>
       LET search_filter == <<"%">> \o q.search \o <<"%">>
       IN \/ ILike(row.title, search_filter)
          \/ ILike(row.alert_id, search_filter)
          \/ ILike(row.description, search_filter)

SelectedIds(store, q) == {id \in DOMAIN store : Selected(store[id], q)}

TotalCount_OfWindow(store, q) ==
  LET rest == Cardinality({id \in DOMAIN store : Selected(store[id], q)}) - q.offset
  IN IF rest < 0 THEN 0 ELSE IF rest < q.limit THEN rest ELSE q.limit

\* select count() from the filtered query.
TotalCount(store, q) == Cardinality(SelectedIds(store, q))

\* Attributes of the Alert class that are not columns: getattr returns them
\* and they have neither asc() nor desc().
NonColumnAttributes == {"__tablename__", "metadata"}

\* getattr(Alert, sort_by, Alert.triggered_date), as the column's name, for
\* the columns the requests sort by and for names Alert does not have.
SortColumn(sort_by) ==
  IF sort_by \in {"triggered_date", "risk_score"}
  THEN sort_by
  ELSE "triggered_date"

SortKey(row, column) ==
  IF column = "risk_score" THEN row.risk_score ELSE row.triggered_date

\* The orders in which the database may return the filtered rows for
\* ORDER BY column ASC|DESC: rows with equal keys come in any order.
Orderings(store, q) ==
  LET ids == SelectedIds(store, q)
      n == Cardinality(ids)
      column == SortColumn(q.sort_by)
      InOrder(a, b) == IF q.sort_order = "asc"
                       THEN SortKey(store[a], column) <= SortKey(store[b], column)
                       ELSE SortKey(store[a], column) >= SortKey(store[b], column)
  IN {o \in [1..n -> ids] :
        /\ \A i, j \in 1..n : i # j => o[i] # o[j]
        /\ \A i \in 1..(n - 1) : InOrder(o[i], o[i + 1])}

\* query.offset(offset).limit(limit)
Window(order, offset, limit) ==
  SubSeq(order, offset + 1, IF offset + limit < Len(order) THEN offset + limit ELSE Len(order))

\* A limit that holds every row of the table (the route accepts 1..100).
WholeTable == Cardinality(QueryIds)

NoFilters ==
  [op |-> "get_all", typology |-> Null, status |-> NoText, risk_min |-> NoInt,
   risk_max |-> NoInt, search |-> NoText, resolution |-> Null,
   assigned_analyst |-> Null, sort_by |-> "triggered_date", sort_order |-> "desc",
   offset |-> 0, limit |-> WholeTable]

Offsets == 0..MaxOffset
Limits == 1..MaxLimit

\* The requests explored: every status text, every search text, combinations
\* of the filters, and every sort with every window.
StatusRequests ==
  {[NoFilters EXCEPT !.status = st] : st \in Strings(StatusTokens, MaxStatusLen)}
SearchRequests ==
  {[NoFilters EXCEPT !.search = se] : se \in Strings(SearchChars, MaxSearchLen)}
FilterRequests ==
  {[NoFilters EXCEPT !.typology = ty, !.status = st, !.risk_min = lo,
                     !.risk_max = hi, !.search = se, !.resolution = re,
                     !.assigned_analyst = an] :
     ty \in {Null, "", "Structuring"},
     st \in {NoText, <<"Closed">>, <<"New", ",", "In Progress">>},
     lo \in {NoInt, 0, 70}, hi \in {NoInt, 70, 100},
     se \in {NoText, <<"b">>},
     re \in {Null, "", "No Suspicion"},
     an \in {Null, "", "__unassigned__", "sarah.chen"}}
SortRequests ==
  {[NoFilters EXCEPT !.status = st, !.sort_by = sb, !.sort_order = so,
                     !.offset = off, !.limit = lim] :
     st \in {NoText, <<"Closed">>},
     sb \in {"triggered_date", "risk_score", "no_such_column", "__tablename__",
             "metadata"},
     so \in {"asc", "desc", "ASC"},
     off \in Offsets, lim \in Limits}
Requests == StatusRequests \cup SearchRequests \cup FilterRequests \cup SortRequests

InitQuery ==
  /\ alerts = QueryAlerts
  /\ audit_trail = <<>>
  /\ now = 1
  /\ pc = "get_all"
  /\ req \in Requests
  /\ idx = 0
  /\ success_count = 0
  /\ failed_ids = <<>>
  /\ response = NoResponse
  /\ calls = 1
  /\ start = Snapshot
  /\ updated = Zeros
  /\ bulk_updated = Zeros
  /\ lost = Zeros
  /\ sar_drafts = <<>>
  /\ callers = <<>>

\* What one execution of get_all returns or raises.
GetAllResult(store, q, previous) ==
  IF q.sort_by \in NonColumnAttributes
  THEN {[kind |-> "AttributeError", previous |-> previous]}
  ELSE {[kind |-> "page", alerts |-> Window(o, q.offset, q.limit),
         total |-> TotalCount(store, q), offset |-> q.offset, limit |-> q.limit,
         previous |-> previous] : o \in Orderings(store, q)}

\* get_all runs for the request.
GetAll ==
  /\ pc = "get_all"
  /\ response' \in GetAllResult(alerts, req, <<>>)
  /\ pc' = "next_window"
  /\ UNCHANGED <<alerts, audit_trail, now, req, idx, success_count, failed_ids,
                 calls, start, updated, bulk_updated, lost,
                 sar_drafts, callers>>

\* The client asks for the window that follows: the same request with the
\* offset advanced by the limit.
GetAllNextWindow ==
  /\ pc = "next_window"
  /\ req' = [req EXCEPT !.offset = req.offset + req.limit]
  /\ response' \in GetAllResult(alerts, req', <<response>>)
  /\ pc' = "done"
  /\ calls' = calls + 1
  /\ UNCHANGED <<alerts, audit_trail, now, idx, success_count, failed_ids,
                 start, updated, bulk_updated, lost,
                 sar_drafts, callers>>

NextQuery ==
  \/ GetAll
  \/ GetAllNextWindow

SpecQuery == InitQuery /\ [][NextQuery]_vars

\* ---------------------------------------------------------------- claims
\* Is x one of the parts of an audit details text?
Contains(details, x) == \E k \in 1..Len(details) : details[k] = x

\* Number of audit entries of an alert with a given action.
EntryCount(id, action) ==
  Cardinality({k \in 1..Len(audit_trail) :
                 audit_trail[k].alert_id = id /\ audit_trail[k].action = action})

\* The single-transition route has written the alert and not yet the audit entry.
Transitioned == pc = "update_audit"

\* C1: an alert's resolution is non-null only if its status is Closed.
\* (The code leaves the resolution in place when a closed alert is reopened.)
C1_ResolutionOnlyWhenClosed ==
  \A id \in AlertIds : alerts[id].resolution # Null => alerts[id].status = "Closed"

\* C2: a successful single transition appends exactly one audit entry for the
\* alert, with action "status_update", performed_by the acting analyst and
\* details holding the new status, the rationale and the resolution if there
\* is one; with no failed audit write, an alert has as many status_update
\* entries as successful update calls.
C2_EntryWritten ==
  (pc = "update_audit" /\ response'.kind = "alert") =>
     /\ Len(audit_trail') = Len(audit_trail) + 1
     /\ SubSeq(audit_trail', 1, Len(audit_trail)) = audit_trail
     /\ LET e == audit_trail'[Len(audit_trail')]
        IN /\ e.alert_id = req.id
           /\ e.action = "status_update"
           /\ e.performed_by = req.analyst
           /\ Contains(e.details, req.status)
           /\ Contains(e.details, req.rationale)
           /\ (Truthy(req.resolution) => Contains(e.details, req.resolution))
C2_CountsAgree ==
  (pc = "idle" /\ lost = Zeros) =>
     \A id \in AlertIds : EntryCount(id, "status_update") = updated[id]
C3_NotFoundStep ==
  (pc = "idle" /\ pc' = "idle" /\ calls' = calls + 1) =>
     /\ response'.kind = "NotFound"
     /\ alerts' = alerts
     /\ audit_trail' = audit_trail
C3_NotFoundChangesNothing ==
  [](Transitioned => req.id \in AlertIds) /\ [][C3_NotFoundStep]_vars

C3_Witness ==
  /\ response.kind = "NotFound"
  /\ calls = 1
  /\ alerts \in SeedStores
  /\ audit_trail = <<>>

\* C4 as stated: closing with any non-null resolution r stores status Closed,
\* resolution r and a closed_at.
C4_CloseWithNonNullResolution ==
  (Transitioned /\ req.status = "Closed" /\ req.resolution # Null) =>
     /\ alerts[req.id].status = "Closed"
     /\ alerts[req.id].resolution = req.resolution
     /\ alerts[req.id].closed_at # NoTime

\* C4 amended: closing with a non-null, non-empty resolution r stores status
\* Closed, resolution r and a closed_at, whatever the prior status; an empty
\* resolution closes the alert and leaves resolution and closed_at as they were.
C4_CloseWithResolution ==
  /\ (Transitioned /\ req.status = "Closed" /\ req.resolution \notin {Null, ""}) =>
        /\ alerts[req.id].status = "Closed"
        /\ alerts[req.id].resolution = req.resolution
        /\ alerts[req.id].closed_at # NoTime
  /\ (Transitioned /\ req.status = "Closed" /\ req.resolution = "") =>
        /\ alerts[req.id].status = "Closed"
        /\ alerts[req.id].resolution = start.alerts[req.id].resolution
        /\ alerts[req.id].closed_at = start.alerts[req.id].closed_at

C4_Witness ==
  /\ Transitioned
  /\ req.status = "Closed"
  /\ req.resolution = "No Suspicion"
  /\ start.alerts[req.id].status = "In Progress"
  /\ start.alerts[req.id].closed_at = NoTime
  /\ alerts[req.id].closed_at # NoTime

\* The fields no transition writes.
SameDescription(old, new) ==
  /\ new.alert_id = old.alert_id
  /\ new.customer_id = old.customer_id
  /\ new.typology = old.typology
  /\ new.risk_score = old.risk_score
  /\ new.total_flagged_amount = old.total_flagged_amount
  /\ new.flagged_transaction_count = old.flagged_transaction_count

\* What one transition of alert id may do to the table old to give the table new.
TransitionFrame(old, new, id, status, resolution) ==
  /\ DOMAIN new = DOMAIN old
  /\ \A other \in DOMAIN old \ {id} : new[other] = old[other]
  /\ SameDescription(old[id], new[id])
  /\ IF status = "Closed" /\ resolution \notin {Null, ""}
     THEN /\ new[id].resolution = resolution
          /\ new[id].closed_at # NoTime
          /\ new[id].closed_at # old[id].closed_at
     ELSE /\ new[id].resolution = old[id].resolution
          /\ new[id].closed_at = old[id].closed_at

\* C5: a transition of alert a changes only a's status and assigned analyst,
\* and a's resolution and closed_at exactly when the new status is Closed and
\* a (non-empty) resolution is supplied; otherwise a's resolution and closed_at
\* stay as they were; a's other fields and every other alert are unchanged.
\* This holds of the single transition and of each step of a bulk close.
C5_SingleStep ==
  (pc = "idle" /\ pc' = "update_audit") =>
     TransitionFrame(alerts, alerts', req'.id, req'.status, req'.resolution)
C5_BulkStep ==
  (pc = "bulk_loop" /\ idx' = idx + 1) =>
     IF req.ids[idx] \in DOMAIN alerts
     THEN TransitionFrame(alerts, alerts', req.ids[idx], req.status, req.resolution)
     ELSE alerts' = alerts
C6_AnalystReassigned ==
  /\ Transitioned => alerts[req.id].assigned_analyst = req.analyst
  /\ pc \in {"bulk_loop", "bulk_audit"} =>
        \A k \in 1..Len(req.ids) :
           ((pc = "bulk_audit" \/ k < idx) /\ req.ids[k] \in AlertIds) =>
              alerts[req.ids[k]].assigned_analyst = req.analyst

C6_Witness ==
  /\ Transitioned
  /\ start.alerts[req.id].assigned_analyst = "priya.nair"
  /\ start.alerts[req.id].status = "In Progress"
  /\ req.status = "In Progress"
  /\ req.analyst = "sarah.chen"
  /\ alerts[req.id].assigned_analyst = "sarah.chen"

\* The ids of a list that are stored, and those that are not, in list order.
StoredIds(ids) == SelectSeq(ids, LAMBDA x : x \in AlertIds)
MissingIds(ids) == SelectSeq(ids, LAMBDA x : x \notin AlertIds)

\* C7: bulk_update_status handles every id of the list, also after a missing
\* one: success_count is the number of list entries whose alert is stored,
\* failed_ids is the missing ids in input order, and the two add up to the
\* length of the list.
C7_BulkAccounting ==
  /\ pc = "bulk_loop" => success_count + Len(failed_ids) = idx - 1
  /\ pc = "returned" =>
        /\ response.closed_count = Len(StoredIds(req.ids))
        /\ response.failed_ids = MissingIds(req.ids)
        /\ response.closed_count + Len(response.failed_ids) = Len(req.ids)
        /\ \A k \in 1..Len(req.ids) :
              req.ids[k] \in AlertIds => alerts[req.ids[k]].status = req.status

C7_Witness ==
  /\ pc = "returned"
  /\ req.ids = <<"bogus", "uuid-1", "uuid-1">>
  /\ req.status = "Escalated"
  /\ response.closed_count = 2
  /\ response.failed_ids = <<"bogus">>
  /\ alerts["uuid-1"].status = "Escalated"

\* update_status called for each id of the list in turn, NotFound ignored.
RECURSIVE SequentialUpdates(_, _, _, _, _, _)
SequentialUpdates(store, ids, status, analyst, resolution, t) ==
  IF ids = <<>> THEN store
  ELSE SequentialUpdates(
         UpdateStatusStore(store, Head(ids), status, analyst, resolution, t),
         Tail(ids), status, analyst, resolution,
         ClockAfter(store, Head(ids), status, resolution, t))

\* C8: the table after bulk_update_status(ids, s, analyst, r) is the table
\* after update_status(id, s, analyst, r) for each id in list order; nothing
\* is rolled back, so an existing id is transitioned wherever it stands in
\* the list.
C8_BulkIsSequentialUpdates ==
  pc = "returned" =>
     alerts = SequentialUpdates(start.alerts, req.ids, req.status, req.analyst,
                                req.resolution, start.now)

C8_Witness ==
  /\ pc = "returned"
  /\ req.ids = <<"uuid-1", "bogus", "uuid-2">>
  /\ req.status = "Closed"
  /\ req.resolution = "No Suspicion"
  /\ alerts["uuid-1"].closed_at = IsoFormat(1)
  /\ alerts["uuid-2"].closed_at = IsoFormat(2)
  /\ alerts["uuid-2"].resolution = "No Suspicion"

\* The audit entries the handler in flight has written.
WrittenByCall ==
  SubSeq(audit_trail, Len(start.audit_trail) + 1, Len(audit_trail))

\* C9: a bulk close writes one "bulk_close" entry, performed_by the analyst,
\* for each list entry whose alert was closed and none for a failed id, in
\* the order of the list; the number written equals the returned count.
C9_EntriesInListOrder ==
  /\ pc = "bulk_loop" => audit_trail = start.audit_trail
  /\ pc = "bulk_audit" =>
        /\ SubSeq(audit_trail, 1, Len(start.audit_trail)) = start.audit_trail
        /\ Len(WrittenByCall) = idx - 1
        /\ Len(WrittenByCall) <= Len(StoredIds(req.ids))
        /\ \A k \in 1..Len(WrittenByCall) :
              /\ WrittenByCall[k].alert_id = StoredIds(req.ids)[k]
              /\ WrittenByCall[k].action = "bulk_close"
              /\ WrittenByCall[k].performed_by = req.analyst
C9_CountReturned ==
  (pc = "bulk_audit" /\ response'.kind = "bulk") =>
     /\ Len(WrittenByCall) = response'.closed_count
     /\ audit_trail' = audit_trail
C9_OneBulkCloseEntryPerSuccess ==
  []C9_EntriesInListOrder /\ [][C9_CountReturned]_vars

C9_Witness ==
  /\ pc = "bulk_audit"
  /\ req.ids = <<"uuid-2", "uuid-1">>
  /\ success_count = 2
  /\ Len(audit_trail) = 2
  /\ audit_trail[1].alert_id = "uuid-2"
  /\ audit_trail[2].alert_id = "uuid-1"

\* C10: when the audit write after an alert write raises, the alert change
\* stays committed and no entry is written for it: an alert's entries and
\* its lost entries together make up its transitions, and nothing restores
\* the alert.
C10_FailureStep ==
  (pc \in {"update_audit", "bulk_audit"} /\ response'.kind = "error") =>
     /\ alerts' = alerts
     /\ audit_trail' = audit_trail
C10_Accounting ==
  pc = "idle" =>
     \A id \in AlertIds :
        EntryCount(id, "status_update") + EntryCount(id, "bulk_close") + lost[id]
          = updated[id] + bulk_updated[id]
C10_TransitionStaysWithoutAudit ==
  []C10_Accounting /\ [][C10_FailureStep]_vars

C10_Witness ==
  /\ pc = "idle"
  /\ response.kind = "error"
  /\ alerts["uuid-1"].status = "Escalated"
  /\ alerts["uuid-1"].assigned_analyst = "sarah.chen"
  /\ updated["uuid-1"] = 1
  /\ EntryCount("uuid-1", "status_update") = 0

\* C12: closed_at and resolution are written together: from stores where
\* both are null or both are set, closed_at is set exactly when resolution is.
C12_ClosedAtWithResolution ==
  \A id \in AlertIds :
     (alerts[id].closed_at # NoTime) <=> (alerts[id].resolution # Null)

C12_Witness ==
  /\ Transitioned
  /\ req.id = "uuid-1"
  /\ start.alerts["uuid-1"].resolution = Null
  /\ start.alerts["uuid-1"].closed_at = NoTime
  /\ alerts["uuid-1"].resolution = "No Suspicion"
  /\ alerts["uuid-1"].closed_at = IsoFormat(1)

\* C13: for every pair of statuses (s, t), t = s and s = Closed included, a
\* transition of an existing alert from s to t succeeds and leaves the alert
\* in status t; NotFound is signalled only for an id that is not stored.
C13_InRequestedStatus ==
  /\ Transitioned => alerts[req.id].status = req.status
  /\ response.kind = "NotFound" => response.detail \notin AlertIds
C13_AlertReturned ==
  (pc = "update_audit" /\ response'.kind = "alert") =>
     response'.alert.status = req.status
C13_EveryTransitionAllowed ==
  []C13_InRequestedStatus /\ [][C13_AlertReturned]_vars

C13_Witness ==
  /\ Transitioned
  /\ start.alerts[req.id].status = "Closed"
  /\ req.status = "Review"
  /\ alerts[req.id].status = "Review"

\* ---- C14
\* C14: the total a query returns is the size of the whole filtered set, before
\* the window is applied: it is at least the number of alerts returned, it is
\* the number of alerts the same filters return through a window that holds
\* the whole table, and it is the same for every offset and limit.
C14_TotalBeforeWindow ==
  response.kind = "page" =>
    /\ response.total >= Len(response.alerts)
    /\ \A r \in GetAllResult(alerts, [req EXCEPT !.offset = 0,
                                                !.limit = Cardinality(DOMAIN alerts)], <<>>) :
          Len(r.alerts) = response.total
    /\ \A off \in Offsets, lim \in Limits :
          \A r \in GetAllResult(alerts, [req EXCEPT !.offset = off, !.limit = lim], <<>>) :
             r.total = response.total
    /\ \A k \in 1..Len(response.previous) :
          response.previous[k].kind = "page" /\ response.previous[k].total = response.total

\* The second window of two, out of four alerts, and then a window past the end.
C14_Witness ==
  /\ response.kind = "page"
  /\ response.previous # <<>>
  /\ response.offset = 2
  /\ response.total = 4
  /\ Len(response.alerts) = 2
  /\ response.previous[1].total = 4

\* ---- C15
\* The alerts a response holds.
Returned == {response.alerts[k] : k \in 1..Len(response.alerts)}

\* get_all has returned the first window and that window holds the whole table.
WholeResult ==
  /\ pc = "next_window"
  /\ response.kind = "page"
  /\ req.offset = 0
  /\ req.limit >= Cardinality(DOMAIN alerts)

HasComma(text) == \E k \in 1..Len(text) : text[k] = ","

\* label is one of the values listed in a comma-separated text: some stretch
\* between two commas (or an end of the text) holds the label and blanks only.
Listed(label, text) ==
  \E i \in 1..Len(text) : \E j \in i..Len(text) :
     /\ i = 1 \/ text[i - 1] = ","
     /\ j = Len(text) \/ text[j + 1] = ","
     /\ \E m \in i..j : /\ text[m] = label
                        /\ \A k \in (i..j) \ {m} : text[k] = " "

\* C15: a status filter that is a comma-separated list returns exactly the
\* alerts, among those the other filters select, whose status is one of the
\* listed values; a status filter without a comma returns exactly the alerts
\* whose status is that text.
C15_StatusList ==
  (WholeResult /\ req.status # NoText /\ req.status # <<>>) =>
     Returned =
       {id \in SelectedIds(alerts, [req EXCEPT !.status = NoText]) :
          IF HasComma(req.status)
          THEN Listed(alerts[id].status, req.status)
          ELSE req.status = <<alerts[id].status>>}

\* "New, Closed" returns the New alert and the two Closed alerts.
C15_Witness ==
  /\ WholeResult
  /\ req.status = <<"New", ",", " ", "Closed">>
  /\ Returned = {"q1", "q3", "q4"}

\* ---- C16
\* s occurs in text as a substring, letter case ignored.
ContainsIgnoringCase(text, s) ==
  /\ text # NoText
  /\ \E i \in 0..(Len(text) - Len(s)) :
        \A k \in 1..Len(s) : Lower(text[i + k]) = Lower(s[k])

\* The row satisfies every filter that the request supplies.
SatisfiesEveryFilter(row, q) ==
  /\ Truthy(q.typology) => row.typology = q.typology
  /\ (q.status # NoText /\ q.status # <<>>) =>
       IF HasComma(q.status) THEN Listed(row.status, q.status)
       ELSE q.status = <<row.status>>
  /\ q.risk_min # NoInt => q.risk_min <= row.risk_score
  /\ q.risk_max # NoInt => row.risk_score <= q.risk_max
  /\ Truthy(q.resolution) => row.resolution = q.resolution
  /\ (Truthy(q.assigned_analyst) /\ q.assigned_analyst # "__unassigned__") =>
       row.assigned_analyst = q.assigned_analyst
  /\ q.assigned_analyst = "__unassigned__" => row.assigned_analyst = Null
  /\ (q.search # NoText /\ q.search # <<>>) =>
       \/ ContainsIgnoringCase(row.title, q.search)
       \/ ContainsIgnoringCase(row.alert_id, q.search)
       \/ ContainsIgnoringCase(row.description, q.search)

\* C16: the query returns exactly the alerts that satisfy every supplied
\* filter at once: typology exact, risk score within both inclusive bounds,
\* resolution exact, analyst exact or null for the sentinel, and the search
\* text a case-insensitive substring of the title, short code or description.
C16_EveryFilterAtOnce ==
  WholeResult =>
    Returned = {id \in DOMAIN alerts : SatisfiesEveryFilter(alerts[id], req)}

\* ---- C17
\* The alerts of a window, as a set.
AlertsOf(page) == {page.alerts[k] : k \in 1..Len(page.alerts)}

\* An offset at or beyond the total returns an empty sequence.
EmptyPastTheEnd(page) == page.offset >= page.total => page.alerts = <<>>

\* C17: for fixed filters, sort column and direction on an unchanged store, the
\* windows returned are windows of one ordered sequence of the filtered set:
\* two windows that do not overlap never return the same alert, also when
\* alerts tie on the sort column, and an offset at or beyond the total returns
\* an empty sequence with the same total.
C17_WindowsOfOneSequence ==
  /\ response.kind = "page" => EmptyPastTheEnd(response)
  /\ (response.kind = "page" /\ response.previous # <<>>) =>
       LET first == response.previous[1]
       IN /\ first.total = response.total
          /\ AlertsOf(first) \cap AlertsOf(response) = {}
          /\ \E o \in Orderings(alerts, req) :
                /\ first.alerts = Window(o, first.offset, first.limit)
                /\ response.alerts = Window(o, response.offset, response.limit)

\* ---- C18
\* The sort columns: the columns of the alerts table.
AlertColumns ==
  {"id", "alert_id", "customer_id", "typology", "risk_score", "status", "title",
   "description", "triggered_date", "assigned_analyst", "resolution", "closed_at",
   "total_flagged_amount", "flagged_transaction_count", "created_at", "updated_at"}

\* The window is in ascending, or descending, order of the column.
InDirection(page, column, ascending) ==
  \A k \in 1..(Len(page.alerts) - 1) :
     LET a == SortKey(alerts[page.alerts[k]], column)
         b == SortKey(alerts[page.alerts[k + 1]], column)
     IN IF ascending THEN a <= b ELSE a >= b

\* C18: a query whose sort_by is not a sort column does not fail and returns
\* the filtered alerts sorted by triggered_date; a sort_order other than
\* "asc" sorts descending.
C18_SortFallbacks ==
  pc \in {"next_window", "done"} =>
    /\ req.sort_by \notin AlertColumns =>
         /\ response.kind = "page"
         /\ AlertsOf(response) \subseteq SelectedIds(alerts, req)
         /\ InDirection(response, "triggered_date", req.sort_order = "asc")
    /\ (req.sort_order # "asc" /\ response.kind = "page") =>
         InDirection(response, IF req.sort_by = "risk_score" THEN "risk_score"
                               ELSE "triggered_date", FALSE)

\* ---------------------------------------------- AlertRepository.get_stats
\* Largest number of alerts in the table get_stats reads.
MaxStatsAlerts == 2

\* The columns get_stats reads, around its thresholds; the other columns are
\* those of a seeded row.
StatsRows ==
  {[QueryAlerts["q1"] EXCEPT !.status = status, !.risk_score = risk,
                             !.assigned_analyst = analyst] :
     status \in Statuses, risk \in {69, 70, 71}, analyst \in {Null, "sarah.chen"}}

\* Tables of 0..MaxStatsAlerts rows, keyed by row number.
StatsStores == UNION {[1..n -> StatsRows] : n \in 0..MaxStatsAlerts}

GetStatsResult_UnassignedAnyStatus(store) ==
  LET open_statuses == OpenStatuses
      Every(row) == TRUE
      Open(row) == row.status \in open_statuses
      HighRisk(row) == row.risk_score >= 70
      Closed(row) == row.status = "Closed"
      Unassigned(row) == row.assigned_analyst = Null
  IN [kind |-> "stats",
      total_alerts |-> Cardinality({id \in DOMAIN store : Every(store[id])}),
      open_alerts |-> Cardinality({id \in DOMAIN store : Open(store[id])}),
      high_risk_count |-> Cardinality({id \in DOMAIN store : HighRisk(store[id])}),
      closed_count |-> Cardinality({id \in DOMAIN store : Closed(store[id])}),
      unassigned_count |-> Cardinality({id \in DOMAIN store : Unassigned(store[id])})]

\* The dict get_stats returns: five counts over the alerts table.
GetStatsResult(store) ==
  LET open_statuses == OpenStatuses
      Every(row) == TRUE
      Open(row) == row.status \in open_statuses
      HighRisk(row) == row.risk_score >= 70
      Closed(row) == row.status = "Closed"
      Unassigned(row) == row.assigned_analyst = Null /\ row.status \in open_statuses
  IN [kind |-> "stats",
      total_alerts |-> Cardinality({id \in DOMAIN store : Every(store[id])}),
      open_alerts |-> Cardinality({id \in DOMAIN store : Open(store[id])}),
      high_risk_count |-> Cardinality({id \in DOMAIN store : HighRisk(store[id])}),
      closed_count |-> Cardinality({id \in DOMAIN store : Closed(store[id])}),
      unassigned_count |-> Cardinality({id \in DOMAIN store : Unassigned(store[id])})]

InitStats ==
  /\ alerts \in StatsStores
  /\ audit_trail = <<>>
  /\ now = 1
  /\ pc = "get_stats"
  /\ req = [op |-> "get_stats"]
  /\ idx = 0
  /\ success_count = 0
  /\ failed_ids = <<>>
  /\ response = NoResponse
  /\ calls = 1
  /\ start = Snapshot
  /\ updated = Zeros
  /\ bulk_updated = Zeros
  /\ lost = Zeros
  /\ sar_drafts = <<>>
  /\ callers = <<>>

\* get_stats runs on the table.
GetStats ==
  /\ pc = "get_stats"
  /\ response' = GetStatsResult(alerts)
  /\ pc' = "done"
  /\ UNCHANGED <<alerts, audit_trail, now, req, idx, success_count, failed_ids,
                 calls, start, updated, bulk_updated, lost,
                 sar_drafts, callers>>

NextStats == GetStats

SpecStats == InitStats /\ [][NextStats]_vars

\* ---- C19
\* The alerts of the table, counted one by one, that are in a set of statuses,
\* are at or above a risk score, and (when asked) have no analyst.
RECURSIVE Tally(_, _, _, _)
Tally(n, statuses, min_risk, only_unassigned) ==
  IF n = 0 THEN 0
  ELSE Tally(n - 1, statuses, min_risk, only_unassigned)
       + (IF /\ alerts[n].status \in statuses
             /\ alerts[n].risk_score >= min_risk
             /\ (only_unassigned => alerts[n].assigned_analyst = Null)
          THEN 1 ELSE 0)

\* C19: getStats returns the number of alerts, the number in one of the four
\* open statuses, the number Closed, the number with risk score >= 70 whatever
\* the status, and the number without analyst in an open status.
C19_StatsCounts ==
  response.kind = "stats" =>
    LET n == Len(alerts)
    IN /\ response.total_alerts = n
       /\ response.open_alerts = Tally(n, {"New", "In Progress", "Review", "Escalated"}, 0, FALSE)
       /\ response.closed_count = Tally(n, {"Closed"}, 0, FALSE)
       /\ response.high_risk_count = Tally(n, {alerts[k].status : k \in 1..n}, 70, FALSE)
       /\ response.unassigned_count = Tally(n, {"New", "In Progress", "Review", "Escalated"}, 0, TRUE)

\* A Closed alert without analyst and with risk score 70 next to an open
\* unassigned alert below 70: the first counts as high risk only.
C19_Witness ==
  /\ response.kind = "stats"
  /\ Len(alerts) = 2
  /\ alerts[1].status = "Closed" /\ alerts[1].assigned_analyst = Null
  /\ alerts[1].risk_score = 70
  /\ alerts[2].status = "Review" /\ alerts[2].assigned_analyst = Null
  /\ alerts[2].risk_score = 69
  /\ response.total_alerts = 2 /\ response.open_alerts = 1
  /\ response.closed_count = 1 /\ response.high_risk_count = 1
  /\ response.unassigned_count = 1

\* ------------------------------------------ services.find_similar_cases
\* Largest number of alerts in the table find_similar_cases reads.
MaxSimilarAlerts == 7

TYPOLOGY_WEIGHT == 40
RISK_SCORE_WEIGHT == 25
FLAGGED_AMOUNT_WEIGHT == 20
RISK_CATEGORY_WEIGHT == 15
RISK_SCORE_TOLERANCE == 15
\* FLAGGED_AMOUNT_TOLERANCE_RATIO = 0.50, in hundredths.
FLAGGED_AMOUNT_TOLERANCE_PERCENT == 50
MAX_RESULTS == 5

\* Python None of total_flagged_amount.
NoAmount == NoInt

\* An alert with the columns find_similar_cases reads and, as risk_category,
\* the risk category of its customer (Null when there is no customer row).
SimilarRow(typology, risk, amount, category) ==
  [typology |-> typology, risk_score |-> risk, total_flagged_amount |-> amount,
   risk_category |-> category, status |-> "Closed", resolution |-> "SAR Filed"]

\* Rows around every threshold of the score.
ScoreRows ==
  {SimilarRow(typology, risk, amount, category) :
     typology \in {"Structuring", "Large Cash"}, risk \in {50, 65, 66},
     amount \in {NoAmount, 0, 100, 150, 151}, category \in {Null, "High", "Low"}}

\* Three kinds of alert that score 100, 65, 40 or 0 against each other.
QueueRows ==
  {SimilarRow("Structuring", 80, 100, "High"),
   SimilarRow("Structuring", 60, 40, "Low"),
   SimilarRow("Large Cash", 30, NoAmount, Null)}

\* Tables keyed by the position of the row in the order the database returns
\* the rows: a target with one candidate over all rows, and tables of up to
\* MaxSimilarAlerts alerts.
SimilarStores ==
  [{1, 2} -> ScoreRows] \cup UNION {[1..n -> QueueRows] : n \in 1..MaxSimilarAlerts}

AbsDiff(a, b) == IF a >= b THEN a - b ELSE b - a

MatchingFactors_StrictTolerance(candidate, target) ==
  (IF candidate.typology = target.typology THEN <<"typology">> ELSE <<>>)
  \o (IF AbsDiff(candidate.risk_score, target.risk_score) < RISK_SCORE_TOLERANCE
      THEN <<"risk_score">> ELSE <<>>)
  \o (IF /\ target.total_flagged_amount # NoAmount
         /\ target.total_flagged_amount > 0
         /\ candidate.total_flagged_amount # NoAmount
         /\ 100 * AbsDiff(candidate.total_flagged_amount, target.total_flagged_amount)
              <= target.total_flagged_amount * FLAGGED_AMOUNT_TOLERANCE_PERCENT
      THEN <<"flagged_amount">> ELSE <<>>)
  \o (IF /\ target.risk_category # Null
         /\ candidate.risk_category # Null
         /\ candidate.risk_category = target.risk_category
      THEN <<"risk_category">> ELSE <<>>)

MatchingFactors_OneSidedRisk(candidate, target) ==
  (IF candidate.typology = target.typology THEN <<"typology">> ELSE <<>>)
  \o (IF candidate.risk_score - target.risk_score <= RISK_SCORE_TOLERANCE
      THEN <<"risk_score">> ELSE <<>>)
  \o (IF /\ target.total_flagged_amount # NoAmount
         /\ target.total_flagged_amount > 0
         /\ candidate.total_flagged_amount # NoAmount
         /\ 100 * AbsDiff(candidate.total_flagged_amount, target.total_flagged_amount)
              <= target.total_flagged_amount * FLAGGED_AMOUNT_TOLERANCE_PERCENT
      THEN <<"flagged_amount">> ELSE <<>>)
  \o (IF /\ target.risk_category # Null
         /\ candidate.risk_category # Null
         /\ candidate.risk_category = target.risk_category
      THEN <<"risk_category">> ELSE <<>>)

\* The matching factors of a candidate against the target, in the order the
\* loop body tests them.
MatchingFactors(candidate, target) ==
  (IF candidate.typology = target.typology THEN <<"typology">> ELSE <<>>)
  \o (IF AbsDiff(candidate.risk_score, target.risk_score) <= RISK_SCORE_TOLERANCE
      THEN <<"risk_score">> ELSE <<>>)
  \o (IF /\ target.total_flagged_amount # NoAmount
         /\ target.total_flagged_amount > 0
         /\ candidate.total_flagged_amount # NoAmount
         /\ 100 * AbsDiff(candidate.total_flagged_amount, target.total_flagged_amount)
              <= target.total_flagged_amount * FLAGGED_AMOUNT_TOLERANCE_PERCENT
      THEN <<"flagged_amount">> ELSE <<>>)
  \o (IF /\ target.risk_category # Null
         /\ candidate.risk_category # Null
         /\ candidate.risk_category = target.risk_category
      THEN <<"risk_category">> ELSE <<>>)

Weight(factor) ==
  CASE factor = "typology" -> TYPOLOGY_WEIGHT
    [] factor = "risk_score" -> RISK_SCORE_WEIGHT
    [] factor = "flagged_amount" -> FLAGGED_AMOUNT_WEIGHT
    [] OTHER -> RISK_CATEGORY_WEIGHT

RECURSIVE SimilarityScore(_)
SimilarityScore(factors) ==
  IF factors = <<>> THEN 0
  ELSE Weight(Head(factors)) + SimilarityScore(Tail(factors))

\* scored_cases after the loop has run over the first n rows of the table.
RECURSIVE ScoredCases(_, _, _)
ScoredCases(store, alert_id, n) ==
  IF n = 0 THEN <<>>
  ELSE LET rest == ScoredCases(store, alert_id, n - 1)
           factors == MatchingFactors(store[n], store[alert_id])
       IN IF n # alert_id /\ SimilarityScore(factors) > 0
          THEN Append(rest, [id |-> n, typology |-> store[n].typology,
                             risk_score |-> store[n].risk_score,
                             status |-> store[n].status,
                             resolution |-> store[n].resolution,
                             similarity_score |-> SimilarityScore(factors),
                             matching_factors |-> factors])
          ELSE rest

RECURSIVE SortedCases_Ascending(_)
SortedCases_Ascending(cases) ==
  IF cases = <<>> THEN <<>>
  ELSE LET front == SortedCases_Ascending(SubSeq(cases, 1, Len(cases) - 1))
           last == cases[Len(cases)]
           keep == {k \in 1..Len(front) : front[k].similarity_score <= last.similarity_score}
           m == Cardinality(keep)
       IN SubSeq(front, 1, m) \o <<last>> \o SubSeq(front, m + 1, Len(front))

\* list.sort(key=similarity_score, reverse=True): stable, so cases with equal
\* scores keep their order.
RECURSIVE SortedCases(_)
SortedCases(cases) ==
  IF cases = <<>> THEN <<>>
  ELSE LET front == SortedCases(SubSeq(cases, 1, Len(cases) - 1))
           last == cases[Len(cases)]
           keep == {k \in 1..Len(front) : front[k].similarity_score >= last.similarity_score}
           m == Cardinality(keep)
       IN SubSeq(front, 1, m) \o <<last>> \o SubSeq(front, m + 1, Len(front))

FirstResults_LastFive(cases) ==
  SubSeq(cases, IF Len(cases) < MAX_RESULTS THEN 1 ELSE Len(cases) - MAX_RESULTS + 1,
         Len(cases))

\* scored_cases[:MAX_RESULTS]
FirstResults(cases) ==
  SubSeq(cases, 1, IF Len(cases) < MAX_RESULTS THEN Len(cases) ELSE MAX_RESULTS)

InitSimilar ==
  /\ alerts \in SimilarStores
  /\ audit_trail = <<>>
  /\ now = 1
  /\ pc = "find_similar_cases"
  /\ req \in {[op |-> "find_similar_cases", id |-> id] : id \in 1..(Len(alerts) + 1)}
  /\ idx = 0
  /\ success_count = 0
  /\ failed_ids = <<>>
  /\ response = NoResponse
  /\ calls = 1
  /\ start = Snapshot
  /\ updated = Zeros
  /\ bulk_updated = Zeros
  /\ lost = Zeros
  /\ sar_drafts = <<>>
  /\ callers = <<>>

FindSimilarCases_EmptyForUnknown ==
  /\ pc = "find_similar_cases"
  /\ response' =
       [kind |-> "similar",
        cases |-> IF req.id \notin DOMAIN alerts THEN <<>>
                  ELSE FirstResults(SortedCases(ScoredCases(alerts, req.id, Len(alerts))))]
  /\ pc' = "done"
  /\ UNCHANGED <<alerts, audit_trail, now, req, idx, success_count, failed_ids,
                 calls, start, updated, bulk_updated, lost,
                 sar_drafts, callers>>

\* find_similar_cases runs for the target.
FindSimilarCases ==
  /\ pc = "find_similar_cases"
  /\ response' =
       IF req.id \notin DOMAIN alerts
       THEN [kind |-> "ValueError"]
       ELSE [kind |-> "similar",
             cases |-> FirstResults(SortedCases(ScoredCases(alerts, req.id, Len(alerts))))]
  /\ pc' = "done"
  /\ UNCHANGED <<alerts, audit_trail, now, req, idx, success_count, failed_ids,
                 calls, start, updated, bulk_updated, lost,
                 sar_drafts, callers>>

NextSimilar == FindSimilarCases

SpecSimilar == InitSimilar /\ [][NextSimilar]_vars

\* ---- C20
\* C20: for an existing target alert, findSimilarCases never returns the
\* target, returns at most 5 entries, and the entries are non-increasing in
\* similarity score.
C20_SimilarCases ==
  response.kind = "similar" =>
    /\ \A k \in 1..Len(response.cases) : response.cases[k].id # req.id
    /\ Len(response.cases) <= 5
    /\ \A k \in 1..(Len(response.cases) - 1) :
          response.cases[k].similarity_score >= response.cases[k + 1].similarity_score

\* Six candidates score above zero against the target, the last of them the
\* highest: five are returned, the highest first, and a lowest one is left out.
C20_Witness ==
  /\ response.kind = "similar"
  /\ Len(alerts) = 7
  /\ req.id = 1
  /\ Len(ScoredCases(alerts, 1, 7)) = 6
  /\ Len(response.cases) = 5
  /\ response.cases[1].id = 7
  /\ response.cases[1].similarity_score = 100
  /\ response.cases[5].similarity_score = 40

\* ------------------------------------------------- all the core operations
\* The columns of the two seeded alerts that the read operations use, with the
\* short code as text and the risk category of the alert's customer.
CoreColumns(id) ==
  IF id = "uuid-1"
  THEN [alert_id |-> <<"S", "1">>, title |-> <<"a", "b">>, description |-> NoText,
        triggered_date |-> 3, risk_category |-> "High"]
  ELSE [alert_id |-> <<"L", "1">>, title |-> <<"b", "a">>, description |-> <<"%">>,
        triggered_date |-> 3, risk_category |-> "Low"]

CoreStores ==
  {[id \in AlertIds |-> CoreColumns(id) @@ store[id]] : store \in SeedStores}

\* The audit entry written when the seeded alert uuid-2 was closed.
EarlierEntry ==
  [alert_id |-> "uuid-2", action |-> "status_update", performed_by |-> "priya.nair",
   details |-> StatusUpdateDetails("Closed", "reviewed", "SAR Filed")]

InitCore ==
  /\ alerts \in CoreStores
  /\ audit_trail = <<EarlierEntry>>
  /\ now = 1
  /\ pc = "idle"
  /\ req = NoReq
  /\ idx = 0
  /\ success_count = 0
  /\ failed_ids = <<>>
  /\ response = NoResponse
  /\ calls = 0
  /\ start = NoStart
  /\ updated = Zeros
  /\ bulk_updated = Zeros
  /\ lost = Zeros
  /\ sar_drafts = <<>>
  /\ callers = <<>>

\* The requests of the queue view made in the core model.
CoreRequests ==
  {NoFilters,
   [NoFilters EXCEPT !.status = <<"New", ",", "Closed">>, !.sort_by = "risk_score",
                     !.sort_order = "asc"],
   [NoFilters EXCEPT !.search = <<"s">>, !.limit = 1],
   [NoFilters EXCEPT !.sort_by = "metadata"]}

\* A read operation returns; it leaves every table as it is.
ReadReturns(result) ==
  /\ pc = "idle"
  /\ calls < MaxCalls
  /\ calls' = calls + 1
  /\ response' = result
  /\ UNCHANGED <<alerts, audit_trail, now, pc, req, idx, success_count, failed_ids,
                 start, updated, bulk_updated, lost,
                 sar_drafts, callers>>

\* AlertRepository.get_all
QueryAlertsRead(q) == \E result \in GetAllResult(alerts, q, <<>>) : ReadReturns(result)

\* AlertRepository.get_stats
GetStatsRead == ReadReturns(GetStatsResult(alerts))

\* The alerts as the rows of a table, in the order of their ids.
RowsOf(store) == [k \in 1..2 |-> store[IF k = 1 THEN "uuid-1" ELSE "uuid-2"]]

\* find_similar_cases, the target given by its row.
FindSimilarCasesRead(k) ==
  ReadReturns([kind |-> "similar",
               cases |-> FirstResults(SortedCases(ScoredCases(RowsOf(alerts), k, 2)))])

RECURSIVE Reversed(_)
Reversed(s) == IF s = <<>> THEN <<>> ELSE Append(Reversed(Tail(s)), Head(s))

\* AuditTrailRepository.get_by_alert: the entries of the alert, with the
\* action when one is given, newest first (created_at grows with each insert).
GetByAlert(table, alert_id, action) ==
  Reversed(SelectSeq(table, LAMBDA e : /\ e.alert_id = alert_id
                                       /\ Truthy(action) => e.action = action))

AuditTrailRead(alert_id, action) ==
  ReadReturns([kind |-> "audit_trail", entries |-> GetByAlert(audit_trail, alert_id, action)])

NextCore ==
  \/ Next
  \/ \E q \in CoreRequests : QueryAlertsRead(q)
  \/ GetStatsRead
  \/ \E k \in 1..2 : FindSimilarCasesRead(k)
  \/ \E alert_id \in RequestIds, action \in {Null, "status_update", "bulk_close"} :
       AuditTrailRead(alert_id, action)

SpecCore == InitCore /\ [][NextCore]_vars

\* ---- C11
\* C11: across the core operations (query, getStats, updateStatus,
\* bulkUpdateStatus, findSimilarCases, audit-trail read) the audit log only
\* grows by appending, an entry once written is never modified or removed,
\* and no operation deletes an alert.
C11_Step ==
  /\ Len(audit_trail') >= Len(audit_trail)
  /\ \A k \in 1..Len(audit_trail) : audit_trail'[k] = audit_trail[k]
  /\ DOMAIN alerts \subseteq DOMAIN alerts'

C11_AuditAppendOnly == [][C11_Step]_vars

\* A bulk close has appended its entry behind the earlier one, and both
\* alerts are still there.
C11_Witness ==
  /\ Len(audit_trail) = 2
  /\ audit_trail[1] = EarlierEntry
  /\ audit_trail[2].action = "bulk_close"
  /\ audit_trail[2].alert_id = "uuid-1"
  /\ DOMAIN alerts = AlertIds

\* ---- C21
\* The four rules of the similarity score, for a candidate c of a target t.
TypologyRule(c, t) == c.typology = t.typology
RiskScoreRule(c, t) ==
  c.risk_score - t.risk_score <= 15 /\ t.risk_score - c.risk_score <= 15
AmountRule(c, t) ==
  /\ t.total_flagged_amount # NoAmount /\ t.total_flagged_amount > 0
  /\ c.total_flagged_amount # NoAmount
  /\ 2 * (c.total_flagged_amount - t.total_flagged_amount) <= t.total_flagged_amount
  /\ 2 * (t.total_flagged_amount - c.total_flagged_amount) <= t.total_flagged_amount
RiskCategoryRule(c, t) ==
  c.risk_category # Null /\ t.risk_category # Null /\ c.risk_category = t.risk_category

\* The sum of the weights of the rules that fire.
RuleScore(c, t) ==
  (IF TypologyRule(c, t) THEN 40 ELSE 0) + (IF RiskScoreRule(c, t) THEN 25 ELSE 0)
  + (IF AmountRule(c, t) THEN 20 ELSE 0) + (IF RiskCategoryRule(c, t) THEN 15 ELSE 0)

\* The number of entries of factors that name the rule.
Mentions(factors, rule) == Cardinality({k \in 1..Len(factors) : factors[k] = rule})

\* C21: for each returned candidate the score is the sum of the weights of
\* exactly the rules that fire, and the matching factors hold one description
\* per fired rule, in rule order; so every score lies in 15..100 and a
\* candidate firing all four rules scores 100 with 4 matching factors.
C21_ScoreIsSumOfFiredRules ==
  response.kind = "similar" =>
    \A k \in 1..Len(response.cases) :
       LET case == response.cases[k]
           c == alerts[case.id]
           t == alerts[req.id]
           factors == case.matching_factors
           Rank(f) == CASE f = "typology" -> 1 [] f = "risk_score" -> 2
                        [] f = "flagged_amount" -> 3 [] OTHER -> 4
       IN /\ case.similarity_score = RuleScore(c, t)
          /\ Mentions(factors, "typology") = (IF TypologyRule(c, t) THEN 1 ELSE 0)
          /\ Mentions(factors, "risk_score") = (IF RiskScoreRule(c, t) THEN 1 ELSE 0)
          /\ Mentions(factors, "flagged_amount") = (IF AmountRule(c, t) THEN 1 ELSE 0)
          /\ Mentions(factors, "risk_category") = (IF RiskCategoryRule(c, t) THEN 1 ELSE 0)
          /\ \A i \in 1..Len(factors) :
                factors[i] \in {"typology", "risk_score", "flagged_amount", "risk_category"}
          /\ \A i \in 1..(Len(factors) - 1) : Rank(factors[i]) < Rank(factors[i + 1])
          /\ case.similarity_score \in 15..100
          /\ (TypologyRule(c, t) /\ RiskScoreRule(c, t) /\ AmountRule(c, t)
              /\ RiskCategoryRule(c, t))
               => (case.similarity_score = 100 /\ Len(factors) = 4)

\* A candidate at the edge of the risk and amount tolerances fires all four rules.
C21_Witness ==
  /\ response.kind = "similar"
  /\ req.id = 1
  /\ Len(alerts) = 2
  /\ alerts[1].risk_score = 50 /\ alerts[2].risk_score = 65
  /\ alerts[1].total_flagged_amount = 100 /\ alerts[2].total_flagged_amount = 150
  /\ Len(response.cases) = 1
  /\ response.cases[1].similarity_score = 100
  /\ response.cases[1].matching_factors
       = <<"typology", "risk_score", "flagged_amount", "risk_category">>

\* ---- C22
\* The ids of the returned cases.
ReturnedCases == {response.cases[k].id : k \in 1..Len(response.cases)}

\* The other alerts whose score against the target is above 0.
PositiveCandidates ==
  {id \in DOMAIN alerts \ {req.id} : RuleScore(alerts[id], alerts[req.id]) > 0}

\* C22: findSimilarCases returns the highest-scoring of the other alerts that
\* score above 0: an alert scoring 0 never appears, every returned entry has a
\* matching factor, every positive-scoring alert left out scores no more than
\* the lowest returned score, and when at most 5 score above 0 all of them
\* are returned.
C22_HighestPositiveCandidates ==
  response.kind = "similar" =>
    /\ ReturnedCases \subseteq PositiveCandidates
    /\ Cardinality(ReturnedCases) = Len(response.cases)
    /\ \A k \in 1..Len(response.cases) : Len(response.cases[k].matching_factors) >= 1
    /\ \A id \in PositiveCandidates \ ReturnedCases :
          \A k \in 1..Len(response.cases) :
             RuleScore(alerts[id], alerts[req.id]) <= response.cases[k].similarity_score
    /\ Cardinality(PositiveCandidates) <= 5 => ReturnedCases = PositiveCandidates

\* Six candidates score above 0 with different scores: the five highest are
\* returned and one that ties with the lowest returned score is left out.
C22_Witness ==
  /\ response.kind = "similar"
  /\ Len(alerts) = 7
  /\ req.id = 1
  /\ Cardinality(PositiveCandidates) = 6
  /\ Len(response.cases) = 5
  /\ \E id \in PositiveCandidates \ ReturnedCases :
        RuleScore(alerts[id], alerts[1]) = response.cases[5].similarity_score
  /\ response.cases[1].similarity_score > response.cases[5].similarity_score

\* ---- C23
\* C23: findSimilarCases on an alert id that does not exist signals not-found
\* and returns no result; whether it succeeds or fails it leaves every alert
\* (with the risk category of its customer) and every audit entry unchanged.
C23_Step ==
  pc = "find_similar_cases" =>
    /\ req.id \notin DOMAIN alerts => response' = [kind |-> "ValueError"]
    /\ req.id \in DOMAIN alerts => response'.kind = "similar"
    /\ alerts' = alerts
    /\ audit_trail' = audit_trail

C23_UnknownTargetNotFound == [][C23_Step]_vars

\* The call for an id past the seven alerts of the table has raised.
C23_Witness ==
  /\ pc = "done"
  /\ Len(alerts) = 7
  /\ req.id = 8
  /\ response = [kind |-> "ValueError"]
  /\ alerts = start.alerts
  /\ audit_trail = start.audit_trail

\* ---- C30
\* The matching factors and the score the call gave alert b as a candidate of
\* its target: those of the returned case, or none for an alert scoring 0.
FactorsGiven(b) ==
  IF b \in ReturnedCases
  THEN (CHOOSE case \in {response.cases[k] : k \in 1..Len(response.cases)} :
          case.id = b).matching_factors
  ELSE <<>>
ScoreGiven(b) ==
  IF b \in ReturnedCases
  THEN (CHOOSE case \in {response.cases[k] : k \in 1..Len(response.cases)} :
          case.id = b).similarity_score
  ELSE 0

\* The alerts the call has decided on: the returned ones and those scoring 0.
Decided ==
  {b \in DOMAIN alerts \ {req.id} :
     b \in ReturnedCases \/ MatchingFactors(alerts[b], alerts[req.id]) = <<>>}

\* C30: the typology, risk-score and risk-category rules fire for b as a
\* candidate of target a exactly when they fire for a as a candidate of target
\* b; only the flagged-amount rule depends on the direction, so the two scores
\* differ by at most 20 and are equal when the two amounts are equal and
\* positive or both absent.
C30_SymmetricButForAmount ==
  response.kind = "similar" =>
    \A b \in Decided :
       LET a == req.id
           back == MatchingFactors(alerts[a], alerts[b])
           amount_a == alerts[a].total_flagged_amount
           amount_b == alerts[b].total_flagged_amount
       IN /\ \A rule \in {"typology", "risk_score", "risk_category"} :
                Mentions(FactorsGiven(b), rule) = Mentions(back, rule)
          /\ ScoreGiven(b) - SimilarityScore(back) \in {-20, 0, 20}
          /\ ((amount_a = amount_b /\ amount_a > 0)
              \/ (amount_a = NoAmount /\ amount_b = NoAmount))
               => ScoreGiven(b) = SimilarityScore(back)

\* Target amount 100, candidate amount 151: out of the target's tolerance of
\* 50 but, the other way round, within the tolerance of 75.5.
C30_Witness ==
  /\ response.kind = "similar"
  /\ Len(alerts) = 2
  /\ req.id = 1
  /\ alerts[1].total_flagged_amount = 100
  /\ alerts[2].total_flagged_amount = 151
  /\ ScoreGiven(2) = 80
  /\ SimilarityScore(MatchingFactors(alerts[1], alerts[2])) = 100

\* ---- C27
\* The entry a step has appended to the audit trail.
NewEntry == audit_trail'[Len(audit_trail')]

\* C27: an audit entry records a resolution only for a transition that stored
\* that resolution on the alert: when the details of a status_update or
\* bulk_close entry carry a resolution r, the call that wrote the entry has
\* set the alert's resolution to r and its status to Closed.
C27_Step ==
  (Len(audit_trail') = Len(audit_trail) + 1 /\ Contains(NewEntry.details, "Resolution")) =>
     LET r == NewEntry.details[Len(NewEntry.details)]
         alert == alerts[NewEntry.alert_id]
     IN /\ alert.status = "Closed"
        /\ alert.resolution = r
        /\ req.status = "Closed"

C27_ResolutionRecordedOnlyWhenStored == [][C27_Step]_vars

\* ------------------------------------------------ after a reopening call
\* The stores after one call that reopened the seeded Closed alert uuid-2.
ReopenedStores ==
  {UpdateStatusStore(store, "uuid-2", status, "sarah.chen", Null, 1) :
     store \in SeedStores, status \in OpenStatuses}

\* The audit trail after that call: the entry of the earlier close and the
\* entry of the reopening.
ReopenedTrail(store) ==
  AuditCreate(<<EarlierEntry>>, "uuid-2", "status_update", "sarah.chen",
              StatusUpdateDetails(store["uuid-2"].status, "reviewed", Null))

InitReopen ==
  /\ alerts \in ReopenedStores
  /\ audit_trail = ReopenedTrail(alerts)
  /\ now = 1
  /\ pc = "idle"
  /\ req = NoReq
  /\ idx = 0
  /\ success_count = 0
  /\ failed_ids = <<>>
  /\ response = NoResponse
  /\ calls = 0
  /\ start = NoStart
  /\ updated = Zeros
  /\ bulk_updated = Zeros
  /\ lost = Zeros
  /\ sar_drafts = <<>>
  /\ callers = <<>>

SpecReopen == InitReopen /\ [][Next]_vars

\* ---- C28
\* C28: when an alert is Closed, its resolution and closed_at are the ones the
\* most recent transition into Closed wrote: a step that closes an alert
\* leaves it with the closed_at of that step (and the resolution written with
\* it), never with a resolution or closed_at of an earlier close.
C28_Step ==
  \A id \in AlertIds :
     (alerts[id].status # "Closed" /\ alerts'[id].status = "Closed") =>
        \/ alerts'[id].closed_at = IsoFormat(now)
        \/ alerts'[id].closed_at = NoTime /\ alerts'[id].resolution = Null

C28_NothingStaleAfterCloseAgain == [][C28_Step]_vars

\* ------------------------------------------- SARDraftRepository.create
\* The concurrent callers, each with its own session.
Callers == {"c1", "c2"}

\* Largest number of create calls one caller makes.
MaxCreates == 2

\* The drafts of an alert, in insertion order.
DraftsOf(table, alert_id) == SelectSeq(table, LAMBDA d : d.alert_id = alert_id)

\* get_by_alert(alert_id)[0].version: the highest version stored for the alert.
HighestVersion(table, alert_id) ==
  LET versions == {DraftsOf(table, alert_id)[k].version :
                     k \in 1..Len(DraftsOf(table, alert_id))}
  IN CHOOSE v \in versions : \A w \in versions : w <= v

\* next_version of create.
NextVersion(table, alert_id) ==
  IF DraftsOf(table, alert_id) # <<>> THEN HighestVersion(table, alert_id) + 1 ELSE 1

\* The rows get_latest can return: ORDER BY version DESC LIMIT 1 takes any of
\* the drafts with the highest version; NoDraft when the alert has none.
NoDraft == [alert_id |-> Null, version |-> 0, created_by |-> Null, call |-> 0]
GetLatest(table, alert_id) ==
  IF DraftsOf(table, alert_id) = <<>> THEN {NoDraft}
  ELSE {d \in {DraftsOf(table, alert_id)[k] : k \in 1..Len(DraftsOf(table, alert_id))} :
          d.version = HighestVersion(table, alert_id)}

IdleCaller ==
  [pc |-> "idle", req |-> NoReq, next_version |-> 0, calls |-> 0, response |-> NoResponse]

InitDrafts ==
  /\ alerts \in SeedStores
  /\ audit_trail = <<>>
  /\ now = 1
  /\ pc = "idle"
  /\ req = NoReq
  /\ idx = 0
  /\ success_count = 0
  /\ failed_ids = <<>>
  /\ response = NoResponse
  /\ calls = 0
  /\ start = NoStart
  /\ updated = Zeros
  /\ bulk_updated = Zeros
  /\ lost = Zeros
  /\ sar_drafts = <<>>
  /\ callers = [c \in Callers |-> IdleCaller]

DraftsFrame ==
  UNCHANGED <<alerts, audit_trail, now, pc, req, idx, success_count, failed_ids,
              response, calls, start, updated, bulk_updated, lost>>

\* create: existing = await get_by_alert(alert_id); next_version is computed.
CreateRead(c, alert_id) ==
  /\ callers[c].pc = "idle"
  /\ callers[c].calls < MaxCreates
  /\ callers' = [callers EXCEPT ![c] =
                   [pc |-> "create_commit",
                    req |-> [op |-> "create", alert_id |-> alert_id],
                    next_version |-> NextVersion(sar_drafts, alert_id),
                    calls |-> callers[c].calls + 1,
                    response |-> NoResponse]]
  /\ UNCHANGED sar_drafts
  /\ DraftsFrame

\* create: session.add(draft); commit; refresh; the draft is returned.
CreateCommit(c) ==
  /\ callers[c].pc = "create_commit"
  /\ LET draft == [alert_id |-> callers[c].req.alert_id,
                   version |-> callers[c].next_version,
                   created_by |-> c, call |-> callers[c].calls]
     IN /\ sar_drafts' = Append(sar_drafts, draft)
        /\ callers' = [callers EXCEPT ![c].pc = "idle", ![c].req = NoReq,
                                      ![c].next_version = 0,
                                      ![c].response = [kind |-> "draft", draft |-> draft]]
  /\ DraftsFrame

\* get_latest(alert_id) runs for a caller with no call in flight.
GetLatestDraft(c, alert_id) ==
  /\ callers[c].pc = "idle"
  /\ \E d \in GetLatest(sar_drafts, alert_id) :
        callers' = [callers EXCEPT ![c].response =
                      [kind |-> "latest", alert_id |-> alert_id, draft |-> d,
                       seen |-> Len(sar_drafts)]]
  /\ UNCHANGED sar_drafts
  /\ DraftsFrame

NextDrafts ==
  \/ \E c \in Callers, alert_id \in AlertIds : CreateRead(c, alert_id)
  \/ \E c \in Callers : CreateCommit(c)
  \/ \E c \in Callers, alert_id \in AlertIds : GetLatestDraft(c, alert_id)

SpecDrafts == InitDrafts /\ [][NextDrafts]_vars

\* ---- C25
\* C25: each create call for an alert stores a draft whose version is one
\* more than the highest version already stored for that alert (1 for the
\* first), so after any sequence or interleaving of create calls no two
\* drafts of an alert share a version, and get_latest returns the draft
\* created last (a result is judged against the table it was read from).
C25_VersionsDistinct ==
  \A i, j \in 1..Len(sar_drafts) :
     (i # j /\ sar_drafts[i].alert_id = sar_drafts[j].alert_id)
       => sar_drafts[i].version # sar_drafts[j].version

C25_LatestIsLastCreated ==
  \A c \in Callers :
     (callers[c].response.kind = "latest" /\ callers[c].response.seen = Len(sar_drafts)) =>
        LET drafts == DraftsOf(sar_drafts, callers[c].response.alert_id)
        IN drafts # <<>> => callers[c].response.draft = drafts[Len(drafts)]

C25_Step ==
  Len(sar_drafts') = Len(sar_drafts) + 1 =>
     LET draft == sar_drafts'[Len(sar_drafts')]
         earlier == DraftsOf(sar_drafts, draft.alert_id)
     IN /\ earlier = <<>> => draft.version = 1
        /\ \A k \in 1..Len(earlier) : draft.version > earlier[k].version
        /\ earlier # <<>> => \E k \in 1..Len(earlier) : draft.version = earlier[k].version + 1

C25_DraftVersionsIncrease ==
  [](C25_VersionsDistinct /\ C25_LatestIsLastCreated) /\ [][C25_Step]_vars

\* ------------------------------------------------- concurrent requests
\* Each caller runs one request in its own session; every await of the
\* handlers is a point where the other caller can run.
AnalystOf(c) == IF c = "c1" THEN "sarah.chen" ELSE "priya.nair"

UpdateRequests(c) ==
  [op : {"update"}, id : RequestIds, status : Statuses, analyst : {AnalystOf(c)},
   rationale : Rationales, resolution : Resolutions]

RaceBulkIds == {<<"uuid-1">>, <<"uuid-2", "uuid-1">>, <<"bogus", "uuid-1">>}

BulkRequests(c) ==
  [op : {"bulk_close"}, ids : RaceBulkIds, status : {"Closed"}, analyst : {AnalystOf(c)},
   rationale : Rationales, resolution : BulkResolutions]

StatsRequests == {[op |-> "get_stats"]}

RaceRequests(c) == UpdateRequests(c) \cup BulkRequests(c) \cup StatsRequests

\* The five count queries of get_stats, in the order they are awaited.
StatsFields ==
  <<"total_alerts", "open_alerts", "high_risk_count", "closed_count", "unassigned_count">>

NoRow == [status |-> Null]
NoStats == [f \in {StatsFields[k] : k \in 1..Len(StatsFields)} |-> 0]

\* A request as its handler is entered.
Entered(r) ==
  [pc |-> IF r.op = "get_stats" THEN "stats" ELSE "read",
   req |-> r, idx |-> 1, loaded |-> NoRow, pending |-> NoRow, read_at |-> 0,
   success_count |-> 0, failed_ids |-> <<>>, stats |-> NoStats,
   response |-> NoResponse]

InitRace ==
  /\ alerts \in SeedStores
  /\ audit_trail = <<>>
  /\ now = 1
  /\ pc = "idle"
  /\ req = NoReq
  /\ idx = 0
  /\ success_count = 0
  /\ failed_ids = <<>>
  /\ response = NoResponse
  /\ calls = 0
  /\ start = Snapshot
  /\ updated = Zeros
  /\ bulk_updated = Zeros
  /\ lost = Zeros
  /\ sar_drafts = <<>>
  /\ callers \in {f \in [Callers -> UNION {{Entered(r) : r \in RaceRequests(c)} : c \in Callers}] :
                    \A c \in Callers : f[c].req \in RaceRequests(c)}

RaceFrame ==
  UNCHANGED <<pc, req, idx, success_count, failed_ids, response, calls, start,
              updated, bulk_updated, lost, sar_drafts>>

\* The id the caller's update_status call is about.
CurrentId(c) ==
  IF callers[c].req.op = "update" THEN callers[c].req.id
  ELSE callers[c].req.ids[callers[c].idx]

\* Where bulk_update_status goes after the id at position k.
AfterBulkId(c, k) == IF k < Len(callers[c].req.ids) THEN "read" ELSE "bulk_audit"

\* The UPDATE a session flushes: only the columns whose value differs from the
\* value the session loaded are written.
Flush(stored, loaded, pending) ==
  [col \in DOMAIN stored |->
     IF pending[col] # loaded[col] THEN pending[col] ELSE stored[col]]

\* update_status: get_by_id returns, the attributes are set on the loaded
\* object (closed_at from the clock); a missing id ends the call.
UpdateStatusRead(c) ==
  /\ callers[c].pc = "read"
  /\ LET me == callers[c]
         id == CurrentId(c)
     IN IF Exists(alerts, id)
        THEN /\ callers' = [callers EXCEPT ![c] =
                  [me EXCEPT !.pc = "commit", !.loaded = alerts[id], !.read_at = now,
                             !.pending = UpdatedRow(alerts[id], me.req.status,
                                            me.req.analyst, me.req.resolution, now)]]
             /\ now' = ClockAfter(alerts, id, me.req.status, me.req.resolution, now)
        ELSE /\ callers' = [callers EXCEPT ![c] =
                  IF me.req.op = "update"
                  THEN [me EXCEPT !.pc = "done",
                                  !.response = [kind |-> "NotFound", detail |-> id]]
                  ELSE [me EXCEPT !.pc = AfterBulkId(c, me.idx), !.idx = 
                                     IF me.idx < Len(me.req.ids) THEN me.idx + 1 ELSE 1,
                                  !.failed_ids = Append(me.failed_ids, id)]]
             /\ now' = now
  /\ UNCHANGED <<alerts, audit_trail>>
  /\ RaceFrame

\* update_status: session.commit() flushes the changed columns.
UpdateStatusCommit(c) ==
  /\ callers[c].pc = "commit"
  /\ alerts' = [alerts EXCEPT ![CurrentId(c)] =
                  Flush(alerts[CurrentId(c)], callers[c].loaded, callers[c].pending)]
  /\ callers' = [callers EXCEPT ![c].pc = "refresh"]
  /\ UNCHANGED <<audit_trail, now>>
  /\ RaceFrame

\* update_status: session.refresh(alert) reloads the row and the call returns.
UpdateStatusRefresh(c) ==
  /\ callers[c].pc = "refresh"
  /\ LET me == callers[c]
     IN callers' = [callers EXCEPT ![c] =
          IF me.req.op = "update"
          THEN [me EXCEPT !.pc = "audit", !.loaded = alerts[CurrentId(c)]]
          ELSE [me EXCEPT !.pc = AfterBulkId(c, me.idx),
                          !.idx = IF me.idx < Len(me.req.ids) THEN me.idx + 1 ELSE 1,
                          !.loaded = alerts[CurrentId(c)],
                          !.success_count = me.success_count + 1]]
  /\ UNCHANGED <<alerts, audit_trail, now>>
  /\ RaceFrame

\* update_alert_status: the audit entry is committed and the alert returned.
StatusAudit(c) ==
  /\ callers[c].pc = "audit"
  /\ LET me == callers[c]
     IN /\ audit_trail' = AuditCreate(audit_trail, me.req.id, "status_update", me.req.analyst,
                              StatusUpdateDetails(me.req.status, me.req.rationale,
                                                  me.req.resolution))
        /\ callers' = [callers EXCEPT ![c].pc = "done",
                                      ![c].response = [kind |-> "alert", alert |-> me.loaded]]
  /\ UNCHANGED <<alerts, now>>
  /\ RaceFrame

\* bulk_close_alerts: one audit entry of the audit loop is committed.
BulkAudit(c) ==
  /\ callers[c].pc = "bulk_audit"
  /\ LET me == callers[c]
         closed == SuccessfullyClosedIds(me.req.ids, me.failed_ids)
     IN /\ me.idx <= Len(closed)
        /\ audit_trail' = AuditCreate(audit_trail, closed[me.idx], "bulk_close",
                              me.req.analyst,
                              BulkCloseDetails(me.req.rationale, me.req.resolution))
        /\ callers' = [callers EXCEPT ![c].idx = me.idx + 1]
  /\ UNCHANGED <<alerts, now>>
  /\ RaceFrame

\* bulk_close_alerts returns BulkCloseResponse.
BulkDone(c) ==
  /\ callers[c].pc = "bulk_audit"
  /\ LET me == callers[c]
     IN /\ me.idx > Len(SuccessfullyClosedIds(me.req.ids, me.failed_ids))
        /\ callers' = [callers EXCEPT ![c].pc = "done",
                         ![c].response = [kind |-> "bulk", closed_count |-> me.success_count,
                                          failed_ids |-> me.failed_ids]]
  /\ UNCHANGED <<alerts, audit_trail, now>>
  /\ RaceFrame

\* get_stats: the next count query runs against the table as it is now; the
\* dict is returned after the fifth.
StatsRead(c) ==
  /\ callers[c].pc = "stats"
  /\ LET me == callers[c]
         field == StatsFields[me.idx]
         counts == [me.stats EXCEPT ![field] = GetStatsResult(alerts)[field]]
     IN callers' = [callers EXCEPT ![c] =
          IF me.idx < Len(StatsFields)
          THEN [me EXCEPT !.idx = me.idx + 1, !.stats = counts]
          ELSE [me EXCEPT !.pc = "done", !.stats = counts,
                          !.response = [kind |-> "stats"] @@ counts]]
  /\ UNCHANGED <<alerts, audit_trail, now>>
  /\ RaceFrame

NextRace ==
  \/ \E c \in Callers : UpdateStatusRead(c)
  \/ \E c \in Callers : UpdateStatusCommit(c)
  \/ \E c \in Callers : UpdateStatusRefresh(c)
  \/ \E c \in Callers : StatusAudit(c)
  \/ \E c \in Callers : BulkAudit(c)
  \/ \E c \in Callers : BulkDone(c)
  \/ \E c \in Callers : StatsRead(c)

SpecRace == InitRace /\ [][NextRace]_vars

\* ---- C24
\* The row one update_status call leaves when it runs alone on the given row.
AloneOn(row, c) ==
  UpdatedRow(row, callers[c].req.status, callers[c].req.analyst,
             callers[c].req.resolution, callers[c].read_at)

\* Callers c and d both run update_alert_status on the same stored alert.
SameAlert(c, d) ==
  /\ c # d
  /\ callers[c].req.op = "update" /\ callers[d].req.op = "update"
  /\ callers[c].req.id = callers[d].req.id
  /\ callers[c].req.id \in AlertIds

\* Caller c commits its alert write in this step.
Writes(c) == callers[c].pc = "commit" /\ callers'[c].pc = "refresh"

\* Caller d has committed its alert write.
HasWritten(d) == callers[d].pc \in {"refresh", "audit", "done"}

\* C24: when two callers call updateStatus on the same alert at the same
\* time, the later write wins: once the second of the two writes is
\* committed, the stored alert is the one that running the two calls one
\* after the other, in the order of their writes, produces.
C24_Step ==
  \A c, d \in Callers :
     (SameAlert(c, d) /\ HasWritten(d) /\ Writes(c)) =>
        alerts'[callers[c].req.id] =
           AloneOn(AloneOn(start.alerts[callers[c].req.id], d), c)

C24_LaterWriteWins == [][C24_Step]_vars

\* ---- C26
\* Caller c is inside a single transition or a bulk close.
InFlight(c) == callers[c].req.op \in {"update", "bulk_close"} /\ callers[c].pc # "done"

\* The audit entries of an alert, in insertion order.
EntriesOf(alert_id) == SelectSeq(audit_trail, LAMBDA e : e.alert_id = alert_id)

\* The new status an audit entry names.
NamedStatus(entry) == entry.details[2]

\* C26: in every state with no transition call in flight, for every alert
\* with at least one audit entry, the new status named in the most recently
\* inserted entry of the alert is the alert's current status, whatever the
\* interleaving of concurrent single transitions and bulk closes.
C26_LastEntryNamesCurrentStatus ==
  (\A c \in Callers : ~InFlight(c)) =>
     \A id \in AlertIds :
        EntriesOf(id) # <<>> =>
           NamedStatus(EntriesOf(id)[Len(EntriesOf(id))]) = alerts[id].status

\* ---- C29
\* C29: every getStats result has open + closed <= total and unassigned <=
\* open, and open + closed = total when every stored status is one of the
\* five, also when getStats runs while updateStatus or bulkUpdateStatus
\* calls of other callers are committing.
C29_StatsConsistent ==
  \A c \in Callers :
     callers[c].response.kind = "stats" =>
        LET stats == callers[c].response
        IN /\ stats.open_alerts + stats.closed_count <= stats.total_alerts
           /\ stats.unassigned_count <= stats.open_alerts
           /\ (\A id \in AlertIds : alerts[id].status \in Statuses) =>
                 stats.open_alerts + stats.closed_count = stats.total_alerts

====
